---- MODULE Spec2Model ----
(***************************************************************************)
(* A model of the peri optimisation and rendering code:                    *)
(*   - LMEngine (src/peri/opt/optimize.py): the Levenberg-Marquardt run     *)
(*     modes do_run_1, do_run_2, do_internal_run, do_run_3, do_stuckJ_run   *)
(*     over an abstract objective (an OptObj);                              *)
(*   - PlatonicSpheresCollection (src/peri/comp/objs.py);                   *)
(*   - separate_particles_into_groups (src/peri/opt/optimize.py);           *)
(*   - LMParticleGroupCollection, AugmentedState, burn and                  *)
(*     LMParticles.update_function (src/peri/opt/optimize.py);              *)
(*   - single methods of LMEngine on small engines of their own:            *)
(*     find_LM_updates with the acceleration correction, the NaN tests of   *)
(*     the adapters and Jacobian refreshes, do_stuckJ_run on n parameters,  *)
(*     check_completion with costol, the choice of J update in do_run_1,   *)
(*     the loops of do_run_3, the place of the model after the helper      *)
(*     evaluations, the shape of the damping;                              *)
(*   - get_num_px_jtj and the parameter names of a sphere collection;      *)
(*   - PSF2D (src/cbamf/comp/psf2d.py): the shapes of its kernels;         *)
(*   - __getstate__ / __setstate__ of the sphere collection and the Slab.  *)
(*                                                                         *)
(* Numbers.  Errors are integers in units of 1e-7, so that the two revert   *)
(* tolerances of the code (1e-7 and 1e-6) are 1 and 10.  Parameters are     *)
(* integers on a small grid.  The damping vector is kept in factored form:  *)
(* entry i is damping0[i] * increase_damp_factor^inc / decrease_damp_factor *)
(* ^dec, and the model stores the two exponents.                            *)
(* The linear algebra of find_LM_updates (lstsq on the damped JTJ) is not   *)
(* computed: the step it returns is any vector of Deltas that is zero off   *)
(* the sub-block, which covers every J, JTJ, gradient and damping.          *)
(***************************************************************************)
EXTENDS Integers, Sequences, FiniteSets, TLC

VARIABLES
    lm,     \* the LMEngine object, its objective, and the position in its run
    sc,     \* the PlatonicSpheresCollection object and the record of its last call
    gp,     \* a state's particles and the groups separate_particles_into_groups made
    gc,     \* the LMParticleGroupCollection object, its scratch files, its position
    au,     \* the AugmentedState object and the State it wraps
    bn,     \* one call of burn: its arguments, its locals, the State's error
    px,     \* an LMParticles object: the values proposed and the values the State got
    ac,     \* one call of LMEngine.find_LM_updates: its inputs and what it returned
    nn,     \* an engine adapter's residuals and J, NaN or not, and the last refresh of them
    sk,     \* one call of do_stuckJ_run: its active list, its good and bad parameters
    cc,     \* one call of LMEngine.check_completion: the engine's costol and what it returned
    pj,     \* one call of get_num_px_jtj: its arguments and what it returned
    nm,     \* a sphere collection's parameter names: its prefix, its particle count, _params
    ju,     \* the J update counters of an engine run by do_run_1
    rt,     \* one call of do_run_3: its loops, n_bad and the engine's _num_iter
    ev,     \* where an engine's model stands, next to its param_vals
    dm,     \* the shape of an engine's damping and the number of its parameters
    pf,     \* a PSF2D: the image shape it was built for and the shapes of its kernels
    pk      \* an object of objs.py, its pickled state and the object reloaded from it

vars == <<lm, sc, gp, gc, au, bn, px, ac, nn, sk, cc, pj, nm, ju, rt, ev, dm, pf, pk>>

\* what the calls on one object leave alone: the other objects
NotLM == <<sc, gp, gc, au, bn, px, ac, nn, sk, cc, pj, nm, ju, rt, ev, dm, pf, pk>>
NotSC == <<lm, gp, gc, au, bn, px, ac, nn, sk, cc, pj, nm, ju, rt, ev, dm, pf, pk>>
NotGP == <<lm, sc, gc, au, bn, px, ac, nn, sk, cc, pj, nm, ju, rt, ev, dm, pf, pk>>
NotGC == <<lm, sc, gp, au, bn, px, ac, nn, sk, cc, pj, nm, ju, rt, ev, dm, pf, pk>>
NotAU == <<lm, sc, gp, gc, bn, px, ac, nn, sk, cc, pj, nm, ju, rt, ev, dm, pf, pk>>
NotBN == <<lm, sc, gp, gc, au, px, ac, nn, sk, cc, pj, nm, ju, rt, ev, dm, pf, pk>>
NotPX == <<lm, sc, gp, gc, au, bn, ac, nn, sk, cc, pj, nm, ju, rt, ev, dm, pf, pk>>
NotAC == <<lm, sc, gp, gc, au, bn, px, nn, sk, cc, pj, nm, ju, rt, ev, dm, pf, pk>>
NotNN == <<lm, sc, gp, gc, au, bn, px, ac, sk, cc, pj, nm, ju, rt, ev, dm, pf, pk>>
NotSK == <<lm, sc, gp, gc, au, bn, px, ac, nn, cc, pj, nm, ju, rt, ev, dm, pf, pk>>
NotCC == <<lm, sc, gp, gc, au, bn, px, ac, nn, sk, pj, nm, ju, rt, ev, dm, pf, pk>>
NotPJ == <<lm, sc, gp, gc, au, bn, px, ac, nn, sk, cc, nm, ju, rt, ev, dm, pf, pk>>
NotNM == <<lm, sc, gp, gc, au, bn, px, ac, nn, sk, cc, pj, ju, rt, ev, dm, pf, pk>>
NotJU == <<lm, sc, gp, gc, au, bn, px, ac, nn, sk, cc, pj, nm, rt, ev, dm, pf, pk>>
NotRT == <<lm, sc, gp, gc, au, bn, px, ac, nn, sk, cc, pj, nm, ju, ev, dm, pf, pk>>
NotRTSK == <<lm, sc, gp, gc, au, bn, px, ac, nn, cc, pj, nm, ju, ev, dm, pf, pk>>
NotEV == <<lm, sc, gp, gc, au, bn, px, ac, nn, sk, cc, pj, nm, ju, rt, dm, pf, pk>>
NotDM == <<lm, sc, gp, gc, au, bn, px, ac, nn, sk, cc, pj, nm, ju, rt, ev, pf, pk>>
NotPF == <<lm, sc, gp, gc, au, bn, px, ac, nn, sk, cc, pj, nm, ju, rt, ev, dm, pk>>
NotPK == <<lm, sc, gp, gc, au, bn, px, ac, nn, sk, cc, pj, nm, ju, rt, ev, dm, pf>>

-----------------------------------------------------------------------------
(* Bounds of the model                                                      *)

\* the fitted parameters are param_vals[1..2]
PIdx == {1, 2}
\* the grid a parameter lives on
PVals == 0..3
\* the components a step of find_LM_updates may have
DVals == {-1, 0, 2}
\* number of top-level calls (do_run_*, reset) explored
MaxCalls == 2

Vec == [PIdx -> PVals]
Deltas == [PIdx -> DVals]

Abs(x) == IF x < 0 THEN -x ELSE x
VAdd(p, d) == [i \in PIdx |-> p[i] + d[i]]

-----------------------------------------------------------------------------
(* The objective: OptObj.update_function / get_error                        *)

Objectives == {"bowl", "flat", "gentle", "zero", "cliff"}

\* the exact sum of squared residuals of objective o at parameters p
Err(o, p) ==
    CASE o = "bowl"   -> 2 + 4 * ((p[1] - 3) * (p[1] - 3) + (p[2] - 2) * (p[2] - 2))
      [] o = "flat"   -> 9
      [] o = "gentle" -> 14 - p[1] - p[2]
      [] o = "zero"   -> 6 * (Abs(p[1] - 1) + Abs(p[2] - 1))
      [] OTHER        -> IF p[1] >= 2 THEN 40 - 10 * p[2] ELSE 45 + p[2]

\* what going back to parameters the model was at before may add to the error
\* found there the first time: nothing for an exact objective; for an inexact
\* one (incremental updates that are not exactly reversible) nothing, 5e-7 or
\* 1.1e-6
Noise(ex) == IF ex THEN {0} ELSE {0, 5, 11}

-----------------------------------------------------------------------------
(* LMEngine: configuration (the constructor's keyword arguments)            *)

\* self.paramtol, in parameter grid units
paramtol == 2
\* self.errtol, in error units
errtol == 3
\* self.fractol is 1 / fractol_inv
fractol_inv == 2
\* self.max_iter
max_iter == 2
\* self.run_length
run_length == 2
\* self._max_inner_loop
_max_inner_loop == 15
\* the tolerance of the revert check of _run1 (1e-7)
RevertTol1 == 1
\* the tolerance of the other revert checks (1e-6)
RevertTol2 == 10

\* subblock=None: all the parameters
AllParams == PIdx

-----------------------------------------------------------------------------
(* LMEngine: the empty records of the last step and of the runs            *)

Damping0 == [i \in PIdx |-> [inc |-> 0, dec |-> 0]]
NoStep == [param_vals |-> [i \in PIdx |-> 0], error |-> 0, damping |-> Damping0,
           rejected |-> 0, outcome |-> "none"]
NoRevert == [path |-> "none", recorded |-> 0, got |-> 0]
NoTrial == [best |-> -1, d1 |-> [i \in PIdx |-> 0], d2 |-> [i \in PIdx |-> 0],
            er1 |-> 0, er2 |-> 0]
NoRun == [good_step |-> TRUE, n_good_steps |-> 0, subblock |-> AllParams,
          update_derr |-> TRUE, iters |-> 0]

NoRun3 == [n_bad |-> 0, max_bad |-> 0]
NoStuckJ == [active_list |-> <<>>, good_params |-> {}, bad_params |-> {},
             cur_block |-> {}, try |-> 0]

-----------------------------------------------------------------------------
(* LMEngine: helpers                                                        *)

\* the steps find_LM_updates may return at parameters p for sub-block sub:
\* zero off the sub-block, as _calc_lm_step fills it
LMUpdates(p, sub) ==
    {d \in Deltas : /\ VAdd(p, d) \in Vec
                    /\ \A i \in PIdx \ sub : d[i] = 0}

increase_damping_twice(dmp) == [i \in PIdx |-> [dmp[i] EXCEPT !.inc = @ + 2]]
increase_damping(dmp) == [i \in PIdx |-> [dmp[i] EXCEPT !.inc = @ + 1]]

decrease_damping_noop(dmp, undo_decrease) == dmp
decrease_damping(dmp, undo_decrease) ==
    [i \in PIdx |-> [dmp[i] EXCEPT !.dec = IF undo_decrease THEN @ - 1 ELSE @ + 1]]

\* increase_damping() n times, once per pass of a retry loop
RECURSIVE increase_damping_n(_, _)
increase_damping_n(dmp, n) ==
    IF n = 0 THEN dmp ELSE increase_damping(increase_damping_n(dmp, n - 1))

\* index (from 0) of the lowest value, the last one on ties
find_best_step_last(err_vals) ==
    LET n == Len(err_vals)
    IN (CHOOSE i \in 1..n : /\ \A j \in 1..n : err_vals[i] <= err_vals[j]
                            /\ \A j \in (i + 1)..n : err_vals[j] # err_vals[i]) - 1

\* index (from 0) of the lowest value, the first one on ties (np.nanargmin)
find_best_step(err_vals) ==
    LET n == Len(err_vals)
        lowest == CHOOSE i \in 1..n : \A j \in 1..n : err_vals[i] <= err_vals[j]
        first == CHOOSE i \in 1..n : /\ err_vals[i] = err_vals[lowest]
                                     /\ \A j \in 1..(i - 1) : err_vals[j] # err_vals[lowest]
    IN first - 1

\* frac_err < fractol, with frac_err = delta_err / error in IEEE arithmetic:
\* a zero error gives +inf, nan or -inf
FracBelow(delta_err, err) ==
    IF err > 0 THEN delta_err * fractol_inv < err
    ELSE IF err = 0 THEN delta_err < 0
    ELSE delta_err * fractol_inv > err

check_completion_no_param(e) ==
    LET delta_err == e._last_error - e.error
    IN \/ delta_err < errtol
       \/ FracBelow(delta_err, e.error)
check_completion(e) ==
    LET delta_err == e._last_error - e.error
    IN \/ \A i \in PIdx : Abs(e._last_vals[i] - e.param_vals[i]) < paramtol
       \/ delta_err < errtol
       \/ FracBelow(delta_err, e.error)

check_terminate_eager(e) == check_completion(e) \/ e._num_iter >= max_iter
check_terminate(e) ==
    IF ~e._has_run THEN FALSE
    ELSE check_completion(e) \/ e._num_iter >= max_iter

\* update_param_vals(new_vals, incremental=True)
update_param_vals(e, delta) ==
    [e EXCEPT !._last_vals = e.param_vals,
              !.param_vals = VAdd(e.param_vals, delta),
              !._fresh_JTJ = FALSE]

\* the J refresh at the top of _run1 and _run2: check_update_J / update_J,
\* else check_Broyden_J / update_Broyden_J (eig_update is off)
RefreshJ(e) ==
    LET cnt == e._J_update_counter + 1
        update == cnt >= e.update_J_frequency /\ ~e._fresh_JTJ
        broyden == ~e._fresh_JTJ /\ (e._inner_run_counter % 1) = 0
    IN IF update
       THEN [e EXCEPT !._J_update_counter = 0, !._fresh_JTJ = TRUE, !.J = "full"]
       ELSE IF broyden
       THEN [e EXCEPT !._J_update_counter = cnt, !.J = "broyden"]
       ELSE [e EXCEPT !._J_update_counter = cnt]

\* the record of the last step (step, trial, revert) is the model's own: it is
\* dropped where no step is being looked at any more
ClearRecord(e) == [e EXCEPT !.step = NoStep, !.trial = NoTrial, !.revert = NoRevert]

\* an exception leaves the engine where it was
Raise(e, name) == [e EXCEPT !.pc = "raised", !.exc = name, !.stack = <<>>]

-----------------------------------------------------------------------------
(* LMEngine: construction                                                   *)

\* LMEngine.__init__ with LMOptObj._set_err_paramvals
NewEngine(o, ex, p0, freq) ==
    [pc |-> "ready", stack |-> <<>>, calls |-> 0, exc |-> "none",
     obj |-> o, exact |-> ex, update_J_frequency |-> freq,
     param_vals |-> p0, _last_vals |-> p0,
     error |-> Err(o, p0),
     _last_error |-> (Err(o, p0) * (fractol_inv + 2)) \div fractol_inv + 2 * errtol,
     model_vals |-> p0,
     damping |-> Damping0,
     _num_iter |-> 0, _inner_run_counter |-> 0, _has_run |-> FALSE,
     _J_update_counter |-> freq, _fresh_JTJ |-> FALSE, J |-> "none",
     term |-> FALSE, ir |-> NoRun, r3 |-> NoRun3, sj |-> NoStuckJ,
     step |-> NoStep, trial |-> NoTrial, revert |-> NoRevert]

StartVals == {[i \in PIdx |-> 0], [i \in PIdx |-> IF i = 1 THEN 2 ELSE 1]}

InitLM ==
    lm \in {NewEngine(o, ex, p0, 1) : o \in Objectives, ex \in BOOLEAN, p0 \in StartVals}

-----------------------------------------------------------------------------
(* LMEngine.do_run_1 / _run1                                                *)

\* the engine as a step of _run1 or _run2 finds it, kept for the step's record
StepStart(e) ==
    RefreshJ([e EXCEPT !._has_run = TRUE,
                       !.step = [param_vals |-> e.param_vals, error |-> e.error,
                                 damping |-> e.damping, rejected |-> 0,
                                 outcome |-> "none"],
                       !.trial = NoTrial, !.revert = NoRevert])

\* the trial steps find_LM_updates may propose that lower the error, and the rest
GoodSteps(e) ==
    {d \in LMUpdates(e.param_vals, AllParams) :
        find_best_step(<<e.error, Err(e.obj, VAdd(e.param_vals, d))>>) = 1}
BadSteps(e) == LMUpdates(e.param_vals, AllParams) \ GoodSteps(e)

\* the good step at the end of _run1, after n rejected trials
Run1Accept(e, n, delta) ==
    LET e1 == [e EXCEPT !._last_error = e.error,
                        !.error = Err(e.obj, VAdd(e.param_vals, delta)),
                        !.model_vals = VAdd(e.param_vals, delta),
                        !.step.rejected = n, !.step.outcome = "good"]
        e2 == update_param_vals(e1, delta)
    IN [e2 EXCEPT !.damping = decrease_damping(@, FALSE)]

\* update_function(p): the model is left evaluated at p
Evaluated(e, p) == [e EXCEPT !.model_vals = p]

Reverted_model_left(e, path, er0) ==
    [e EXCEPT !.revert = [path |-> path, recorded |-> e.error, got |-> er0]]
\* a revert: update_function(param_vals), which gave er0
Reverted(e, path, er0) ==
    [e EXCEPT !.model_vals = e.param_vals,
              !.revert = [path |-> path, recorded |-> e.error, got |-> er0]]

Run1RevertFails(e, er0) == Abs(er0 - e.error) > RevertTol1

\* _run1: every engine it may leave behind
Run1(e) ==
    LET e0 == StepStart(e)
        er0s == {Err(e.obj, e.param_vals) + n : n \in Noise(e.exact)}
        \* the first trial step is good
        direct == {Run1Accept(e0, 0, d) : d \in GoodSteps(e)}
        \* the first trial is bad and the revert check fails
        raised1 == {Raise(Reverted(Evaluated(e0, VAdd(e.param_vals, d)), "run1", er0),
                          "RuntimeError") :
                        er0 \in {x \in er0s : Run1RevertFails(e, x)}, d \in BadSteps(e)}
        passed == {x \in er0s : ~Run1RevertFails(e, x)}
        \* pass n of the for loop finds a good step
        rescued == {Run1Accept([Reverted(e0, "run1", er0)
                                   EXCEPT !.damping = increase_damping_n(@, n)], n, d) :
                        er0 \in passed, n \in 1.._max_inner_loop, d \in GoodSteps(e)}
        \* no pass does: the for-else branch
        looped(d) == [Evaluated(e0, VAdd(e.param_vals, d))
                         EXCEPT !.damping = increase_damping_n(@, _max_inner_loop),
                                !.step.rejected = _max_inner_loop + 1]
        stuck == IF passed = {} THEN {}
                 ELSE {IF Run1RevertFails(e, er0)
                       THEN Raise(Reverted(looped(d), "run1", er0), "RuntimeError")
                       ELSE [Reverted(looped(d), "run1", er0) EXCEPT !.step.outcome = "stuck"] :
                       er0 \in er0s, d \in BadSteps(e)}
    IN direct \cup (IF BadSteps(e) = {} THEN {} ELSE raised1 \cup rescued \cup stuck)

\* after _run1 returns: the counters, then the loop's next check_terminate
EndRun1Iter(e) ==
    IF e.pc = "raised" THEN e
    ELSE LET e1 == [e EXCEPT !._num_iter = @ + 1, !._inner_run_counter = @ + 1]
         IN [e1 EXCEPT !.pc = "r1_chk", !.term = check_terminate(e1)]

CallRun1 ==
    /\ UNCHANGED NotLM
    /\ lm.pc = "ready"
    /\ lm.calls < MaxCalls
    /\ lm' = [lm EXCEPT !.pc = "r1_chk", !.calls = @ + 1, !.term = check_terminate(lm)]

Run1Return ==
    /\ UNCHANGED NotLM
    /\ lm.pc = "r1_chk"
    /\ lm.term
    /\ lm' = ClearRecord([lm EXCEPT !.pc = "ready"])

\* one pass of the while loop of do_run_1
Run1Step ==
    /\ UNCHANGED NotLM
    /\ lm.pc = "r1_chk"
    /\ ~lm.term
    /\ \E e \in Run1(lm) : lm' = EndRun1Iter(e)

-----------------------------------------------------------------------------
(* LMEngine.do_internal_run                                                 *)

\* the while condition of do_internal_run, check_terminate kept in term
IrCheck(e) == [e EXCEPT !.pc = "ir_chk", !.term = check_terminate(e)]

IrContinues(e) ==
    /\ e._inner_run_counter < run_length
    /\ e.ir.good_step
    /\ ~e.term

\* the call do_internal_run(initial_count, subblock, update_derr), up to the
\* first evaluation of the while condition; ret is where it returns to
CallInternal(e, initial_count, subblock, update_derr, ret) ==
    IrCheck([e EXCEPT !._inner_run_counter = initial_count,
                      !.ir = [good_step |-> TRUE, n_good_steps |-> 0,
                              subblock |-> subblock, update_derr |-> update_derr,
                              iters |-> 0],
                      !.stack = <<ret>> \o @])

\* a full update of J in the place of the Broyden update
IrBroyden_full(e) ==
    IF e._inner_run_counter # 0
    THEN [e EXCEPT !.J = "full", !._fresh_JTJ = TRUE, !._J_update_counter = 0]
    ELSE e

\* check_Broyden_J / update_Broyden_J inside do_internal_run
IrBroyden(e) ==
    IF ~e._fresh_JTJ /\ e._inner_run_counter # 0 /\ (e._inner_run_counter % 1) = 0
    THEN [e EXCEPT !.J = "broyden"]
    ELSE e

\* one pass of the while loop of do_internal_run
IrStep ==
    /\ UNCHANGED NotLM
    /\ lm.pc = "ir_chk"
    /\ IrContinues(lm)
    /\ IF lm.ir.subblock = {}
       THEN lm' = Raise(ClearRecord(lm), "ValueError")
       ELSE \E delta_vals \in LMUpdates(lm.param_vals, lm.ir.subblock),
               n0 \in Noise(lm.exact) :
            LET inner == Head(lm.stack) \in {"run2", "run3"}
                e0 == IrBroyden(IF inner THEN lm ELSE ClearRecord(lm))
                er0 == lm.error
                er1 == Err(lm.obj, VAdd(lm.param_vals, delta_vals))
                er0_0 == Err(lm.obj, lm.param_vals) + n0
                good_step == er1 < er0
                e1 == update_param_vals([e0 EXCEPT !.ir.n_good_steps = @ + 1], delta_vals)
                good == [e1 EXCEPT !._last_error = IF lm.ir.update_derr THEN er0 ELSE @,
                                   !.error = er1,
                                   !.model_vals = VAdd(lm.param_vals, delta_vals)]
                bad == [e0 EXCEPT !.ir.good_step = FALSE,
                                  !.model_vals = lm.param_vals,
                                  !.revert = [path |-> "internal", recorded |-> er0,
                                              got |-> er0_0]]
                Counted(e) == IrCheck([e EXCEPT !._inner_run_counter = @ + 1,
                                                !.ir.iters = @ + 1])
            IN lm' = IF good_step THEN Counted(good)
                     ELSE IF Abs(er0 - er0_0) > RevertTol2 THEN Raise(bad, "RuntimeError")
                     ELSE Counted(bad)

-----------------------------------------------------------------------------
(* LMEngine.do_run_2 / _run2                                                *)

\* step 3 of _run2 after a good step: the saved _last_error and _last_vals,
\* then do_internal_run(initial_count=1), which returns to ret
Run2Good(e, ret) ==
    CallInternal([e EXCEPT !._last_error = e.step.error,
                           !._last_vals = e.step.param_vals,
                           !.step.outcome = "good"],
                 1, AllParams, TRUE, ret)

\* _run2 from the two trial steps d1, d2 on: every engine it may leave behind,
\* either inside do_internal_run, or returned (pc "run2_done") or raised
Run2Trial(e, ret, d1, d2) ==
    LET e0 == StepStart(e)
        p == e.param_vals
        \* decrease_damping() and decrease_damping(undo_decrease=True) around
        \* the second find_LM_updates
        dmp == decrease_damping(decrease_damping(e0.damping, FALSE), TRUE)
        er1 == Err(e.obj, VAdd(p, d1))
        er2 == Err(e.obj, VAdd(p, d2))
        best_step == find_best_step(<<e.error, er1, er2>>)
        e1 == [e0 EXCEPT !.damping = dmp,
                         !.trial = [best |-> best_step, d1 |-> d1, d2 |-> d2,
                                    er1 |-> er1, er2 |-> er2]]
        er0s == {Err(e.obj, p) + n : n \in Noise(e.exact)}
        \* best_step == 0: put back (unchecked), then the for loop; pass n
        \* finds a good step
        rescued == {Run2Good([update_param_vals(
                                 [Reverted(e1, "run2", er0)
                                     EXCEPT !.damping = increase_damping_n(@, n),
                                            !.step.rejected = n], d)
                                 EXCEPT !.error = Err(e.obj, VAdd(p, d)),
                                        !.model_vals = VAdd(p, d)], ret) :
                        er0 \in er0s, n \in 1.._max_inner_loop, d \in GoodSteps(e)}
        \* or no pass does: self.error = self.update_function(param_vals)
        stuck == {[Reverted([Evaluated(e1, VAdd(p, d))
                                EXCEPT !.damping = increase_damping_n(@, _max_inner_loop),
                                       !.step.rejected = _max_inner_loop + 1,
                                       !.step.outcome = "stuck"], "run2", er0)
                     EXCEPT !.error = er0, !.pc = "run2_done"] :
                     er0 \in er0s, d \in BadSteps(e)}
        \* best_step == 1: back to the er1 parameters, checked
        first ==
            {IF Abs((er1 + n) - er1) > RevertTol2
             THEN Raise([e1 EXCEPT !.model_vals = VAdd(p, d1)], "RuntimeError")
             ELSE Run2Good([update_param_vals(e1, d1)
                              EXCEPT !.error = er1, !.model_vals = VAdd(p, d1)], ret) :
             n \in Noise(e.exact)}
        \* best_step == 2: already at the er2 parameters
        second == {Run2Good([update_param_vals(e1, d2)
                               EXCEPT !.error = er2, !.model_vals = VAdd(p, d2),
                                      !.damping = decrease_damping(dmp, FALSE)], ret)}
    IN IF best_step = 0 THEN rescued \cup stuck
       ELSE IF best_step = 1 THEN first
       ELSE second

Run2(e, ret) ==
    UNION {Run2Trial(e, ret, d1, d2) : d1, d2 \in LMUpdates(e.param_vals, AllParams)}

\* after _run2 returns to do_run_2: the counter, then the next check_terminate
EndRun2Iter(e) ==
    LET e1 == [e EXCEPT !._num_iter = @ + 1]
    IN [e1 EXCEPT !.pc = "r2_chk", !.term = check_terminate(e1)]

-----------------------------------------------------------------------------
(* LMEngine.do_run_3 / do_stuckJ_run                                        *)

\* stop_halving, the argument's default
stop_halving == 1

\* halve_randomly(blk): the shuffled indices, cut at size / 2
halve_randomly(blk) ==
    {<<blk1, blk \ blk1>> : blk1 \in {b \in SUBSET blk : Cardinality(b) = Cardinality(blk) \div 2}}

\* step 0 of do_stuckJ_run and the first pass of its while loop, up to the
\* sub-block's do_internal_run
StartStuckJ(e) ==
    {CallInternal([e EXCEPT !.sj = [active_list |-> <<h[2]>>, good_params |-> {},
                                    bad_params |-> {}, cur_block |-> h[1], try |-> 0]],
                  0, h[1], FALSE, "sj_block") : h \in halve_randomly(AllParams)}

\* the inner while loop of do_run_3
Run3Inner(e) ==
    IF e.r3.n_bad < e.r3.max_bad
    THEN StartStuckJ(e)
    ELSE {[e EXCEPT !.pc = "r3_chk", !.term = check_terminate(e)]}

\* do_stuckJ_run returns bad_params.sum() to do_run_3, which counts it
StuckJReturn(e) ==
    Run3Inner([e EXCEPT !.r3.n_bad = Cardinality(e.sj.bad_params),
                        !._num_iter = @ + 1])

\* steps 6 and 7: update_select_J(bad_params), then a run with the full J
StuckJBad(e) ==
    IF e.sj.bad_params # {}
    THEN {CallInternal([e EXCEPT !.J = "select", !.model_vals = e.param_vals],
                       0, AllParams, TRUE, "sj_full")}
    ELSE StuckJReturn(e)

\* step 5: a run with the good parameters
StuckJGood(e) ==
    IF e.sj.good_params # {}
    THEN {CallInternal(e, 0, e.sj.good_params, TRUE, "sj_good")}
    ELSE StuckJBad(e)

\* the while loop over the active list
StuckJLoop(e) ==
    IF e.sj.active_list # <<>>
    THEN {CallInternal([e EXCEPT !.sj.cur_block = Head(e.sj.active_list),
                                 !.sj.active_list = Tail(@)],
                       0, Head(e.sj.active_list), FALSE, "sj_block")}
    ELSE StuckJGood(e)

\* step 3: the sub-block's run took n_steps good steps
StuckJBlock(e, n_steps) ==
    LET cur == e.sj.cur_block
    IN IF n_steps > 0
       THEN StuckJLoop([e EXCEPT !.sj.good_params = @ \cup cur])
       ELSE IF Cardinality(cur) > stop_halving
       THEN UNION {StuckJLoop([e EXCEPT !.sj.active_list = @ \o h]) :
                      h \in halve_randomly(cur)}
       ELSE StuckJLoop([e EXCEPT !.sj.bad_params = @ \cup cur])

\* the while loop on the freshly updated bad parameters, and what follows it
StuckJRetry(e, n_bad_steps) ==
    IF n_bad_steps = 0 /\ ~check_terminate(e) /\ e.sj.try < _max_inner_loop
    THEN {CallInternal([e EXCEPT !.sj.try = @ + 1, !.damping = increase_damping(@)],
                       0, e.sj.bad_params, TRUE, "sj_bad")}
    ELSE IF e.sj.try >= _max_inner_loop
    THEN StuckJReturn(e)
    ELSE {CallInternal(e, 0, AllParams, TRUE, "sj_again")}

\* what follows the return of _run2 (or of its do_internal_run) in caller ret
AfterRun2(e, ret) ==
    IF ret = "run2" THEN {EndRun2Iter(e)}
    ELSE Run3Inner([e EXCEPT !._num_iter = @ + 1])

\* do_internal_run returns n_steps to the place ret of its caller
Continue(e, ret, n_steps) ==
    CASE ret = "user"     -> {ClearRecord([e EXCEPT !.pc = "ready"])}
      [] ret = "sj_block" -> StuckJBlock(e, n_steps)
      [] ret = "sj_good"  -> StuckJBad(e)
      [] ret = "sj_full"  -> IF n_steps = 0
                             THEN {CallInternal(e, 0, e.sj.bad_params, TRUE, "sj_bad")}
                             ELSE StuckJReturn(e)
      [] ret = "sj_bad"   -> StuckJRetry(e, n_steps)
      [] ret = "sj_again" -> StuckJReturn(e)
      [] OTHER            -> AfterRun2(e, ret)

CallRun2 ==
    /\ UNCHANGED NotLM
    /\ lm.pc = "ready"
    /\ lm.calls < MaxCalls
    /\ lm' = [lm EXCEPT !.pc = "r2_chk", !.calls = @ + 1, !.term = check_terminate(lm)]

Run2Return ==
    /\ UNCHANGED NotLM
    /\ lm.pc = "r2_chk"
    /\ lm.term
    /\ lm' = ClearRecord([lm EXCEPT !.pc = "ready"])

\* one pass of the while loop of do_run_2, up to the inner run of _run2
Run2Step ==
    /\ UNCHANGED NotLM
    /\ lm.pc = "r2_chk"
    /\ ~lm.term
    /\ \E e \in Run2(lm, "run2") :
         lm' \in IF e.pc = "run2_done" THEN AfterRun2(e, "run2") ELSE {e}

MaxBads == {Cardinality(PIdx) \div 4, 1, 2}

\* do_run_3(max_bad): max_bad=None is param_vals.size / 4
CallRun3 ==
    /\ UNCHANGED NotLM
    /\ lm.pc = "ready"
    /\ lm.calls < MaxCalls
    /\ \E max_bad \in MaxBads :
         lm' = [lm EXCEPT !.pc = "r3_chk", !.calls = @ + 1, !.term = check_terminate(lm),
                          !.r3 = [n_bad |-> 0, max_bad |-> max_bad]]

Run3Return ==
    /\ UNCHANGED NotLM
    /\ lm.pc = "r3_chk"
    /\ lm.term
    /\ lm' = ClearRecord([lm EXCEPT !.pc = "ready"])

\* one pass of the outer while loop of do_run_3, up to the next run it calls
Run3Step ==
    /\ UNCHANGED NotLM
    /\ lm.pc = "r3_chk"
    /\ ~lm.term
    /\ \E e \in Run2(lm, "run3") :
         lm' \in IF e.pc = "run2_done" THEN AfterRun2(e, "run3") ELSE {e}

CallInternalRun ==
    /\ UNCHANGED NotLM
    /\ lm.pc = "ready"
    /\ lm.calls < MaxCalls
    /\ lm.J # "none"
    /\ lm' = CallInternal([lm EXCEPT !.calls = @ + 1],
                          0, AllParams, TRUE, "user")

\* do_internal_run returns n_good_steps to its caller
IrReturn ==
    /\ UNCHANGED NotLM
    /\ lm.pc = "ir_chk"
    /\ ~IrContinues(lm)
    /\ LET ret == Head(lm.stack)
           e0 == [lm EXCEPT !.stack = Tail(@)]
       IN lm' \in Continue(e0, ret, lm.ir.n_good_steps)

\* LMOptObj._set_err_paramvals: the parameters and the error are read back from
\* the objective, and _last_error is set above every tolerance
_set_err_paramvals(e) ==
    LET error == Err(e.obj, e.model_vals)
    IN [e EXCEPT !.param_vals = e.model_vals, !._last_vals = e.model_vals,
                 !.error = error,
                 !._last_error = (error * (fractol_inv + 2)) \div fractol_inv + 2 * errtol]

\* LMEngine.reset(): the counters, and _set_err_paramvals
Reset ==
    /\ UNCHANGED NotLM
    /\ lm.pc \in {"ready", "raised"}
    /\ lm.calls < MaxCalls
    /\ lm' = _set_err_paramvals(
                [ClearRecord(lm) EXCEPT !.pc = "ready", !.exc = "none", !.calls = @ + 1,
                                        !._num_iter = 0, !._inner_run_counter = 0,
                                        !._J_update_counter = lm.update_J_frequency,
                                        !._fresh_JTJ = FALSE, !._has_run = FALSE])

-----------------------------------------------------------------------------
(* Properties of LMEngine                                                   *)

\* the places where the engine has just evaluated check_terminate (into term)
AtCheck == lm.pc \in {"r1_chk", "r2_chk", "r3_chk", "ir_chk"}

\* the four criteria, written from the quantities themselves.  A quotient by a
\* zero error is below fractol only when it is -inf, and then the absolute
\* decrease is negative, below errtol as well.
ParamCriterion == \A i \in PIdx : Abs(lm.param_vals[i] - lm._last_vals[i]) < paramtol
ErrCriterion == lm._last_error - lm.error < errtol
FracCriterion == lm.error > 0 /\ (lm._last_error - lm.error) * fractol_inv < lm.error
IterCriterion == lm._num_iter >= max_iter

\* C1: check_terminate is False while _has_run is False; after a step it is
\* True exactly when the parameter change, the error decrease or the fractional
\* error decrease is below its tolerance, or _num_iter >= max_iter.
C1_CheckTerminate ==
    AtCheck =>
        (lm.term <=> (lm._has_run /\ (ParamCriterion \/ ErrCriterion
                                      \/ FracCriterion \/ IterCriterion)))

\* a run that ends on the iteration count alone
C1_Witness ==
    /\ AtCheck /\ lm._has_run /\ lm.term
    /\ ~ParamCriterion /\ ~ErrCriterion /\ ~FracCriterion

\* C2: in every run mode the outer-iteration counter _num_iter never exceeds
\* max_iter.
C2_MaxIterHardStop == lm._num_iter <= max_iter

\* the first trial(s) of the last step and then all the retries were rejected
AllRejected == lm.step.rejected > _max_inner_loop

StuckClean ==
    /\ lm.pc # "raised"
    /\ lm.param_vals = lm.step.param_vals
    /\ lm.error = lm.step.error
    /\ lm.model_vals = lm.param_vals

AfterRun1Step == lm.pc = "r1_chk" /\ lm.step.outcome \in {"good", "stuck"}

\* C4 as stated: in run mode 1 every rejected trial multiplies the damping by
\* increase_damp_factor once and an accepted step divides it by
\* decrease_damp_factor once.
C4_DampingPerTrial ==
    AfterRun1Step =>
        \A i \in PIdx :
            /\ lm.damping[i].inc = lm.step.damping[i].inc + lm.step.rejected
            /\ lm.damping[i].dec = lm.step.damping[i].dec
                                   + (IF lm.step.outcome = "good" THEN 1 ELSE 0)

\* C4, amended: every rejected trial that is followed by a retry multiplies the
\* damping by increase_damp_factor once (the last rejected trial of a stuck step
\* is followed by none), and an accepted step divides it by decrease_damp_factor
\* once.
C4_DampingPerRetry ==
    AfterRun1Step =>
        \A i \in PIdx :
            /\ lm.damping[i].inc = lm.step.damping[i].inc
                                   + (IF lm.step.outcome = "stuck"
                                      THEN lm.step.rejected - 1 ELSE lm.step.rejected)
            /\ lm.damping[i].dec = lm.step.damping[i].dec
                                   + (IF lm.step.outcome = "good" THEN 1 ELSE 0)

C4_Witness ==
    AfterRun1Step /\ lm.step.outcome = "good" /\ lm.step.rejected = 3

\* _run2 has chosen its step and is inside the do_internal_run it ends with
InRun2 == lm.pc = "ir_chk" /\ Head(lm.stack) \in {"run2", "run3"}

RevertTol == IF lm.revert.path = "run1" THEN RevertTol1 ELSE RevertTol2

\* C6: whenever a run path puts the parameters back after a rejected step and
\* the re-evaluated error differs from the recorded one by more than the
\* tolerance, RuntimeError is raised.
C6_RevertChecked ==
    lm.revert.path # "none" /\ Abs(lm.revert.got - lm.revert.recorded) > RevertTol
        => lm.pc = "raised" /\ lm.exc = "RuntimeError"

\* one pass of do_internal_run's loop: what it may change
IrPass ==
    /\ lm'.damping = lm.damping
    /\ lm'.J \in {lm.J, "broyden"}
    /\ lm'._J_update_counter = lm._J_update_counter
    /\ lm'.pc \in {"ir_chk", "raised"}
    /\ lm'.pc = "ir_chk" =>
         /\ lm'.ir.iters = lm.ir.iters + 1
         /\ lm'._inner_run_counter = lm._inner_run_counter + 1
    /\ IF lm'.param_vals # lm.param_vals \/ lm'.error # lm.error
       THEN lm'.ir.n_good_steps = lm.ir.n_good_steps + 1 /\ lm'.error < lm.error
       ELSE lm'.ir.n_good_steps = lm.ir.n_good_steps

\* do_internal_run at its while condition: the passes made and the steps counted
IrCounts(e) ==
    /\ e._inner_run_counter <= run_length
    /\ e.ir.iters <= run_length
    /\ e.ir.n_good_steps = e.ir.iters - (IF e.ir.good_step THEN 0 ELSE 1)
    /\ ~e.ir.good_step => e.model_vals = e.param_vals /\ ~IrContinues(e)

\* C23: do_internal_run changes neither the damping nor the full Jacobian (J
\* gets Broyden updates at most); starting from initial_count <= run_length it
\* makes at most run_length - initial_count passes; a rejected step is its
\* last, and the model is back at param_vals after it; n_good_steps, which it
\* returns, counts the passes that lowered the error and moved the parameters.
C23_InternalRunFrame ==
    [][/\ (lm.pc = "ir_chk" /\ IrContinues(lm)) => IrPass
       /\ lm'.pc = "ir_chk" => IrCounts(lm')]_vars

\* two passes of one do_internal_run: the first accepted, the second, made
\* after a Broyden update of J, rejected
C23_Witness ==
    /\ lm.pc = "ir_chk"
    /\ lm.ir.iters = 2 /\ lm.ir.n_good_steps = 1 /\ ~lm.ir.good_step
    /\ lm.J = "broyden"

-----------------------------------------------------------------------------
(* PlatonicSpheresCollection (src/peri/comp/objs.py)                        *)
(*                                                                         *)
(* The model keeps the z axis of the field, the one zscale acts on.         *)
(* Positions, radii and tile corners are in quarter voxels, so that 4.5 is  *)
(* 18 and a radius 1.5 at zscale 2 is 3; voxel indices are integers.        *)
(* Tile and Component are not in the source tree: a Tile is the half-open   *)
(* box [l, r) of the specification, a parent applies update(params, values) *)
(* when trigger_update reaches it.                                          *)

\* shape.shape[0]: the voxels of the padded field along z
FieldShape == 12
\* support_pad, the constructor's default
support_pad == 2
\* self.inner.l[0], the offset _trans adds
inner_l == 1
\* the most particles a collection of the model holds
MaxN == 2
\* the calls made on one collection
MaxOps == 2

Voxels == 0..(FieldShape - 1)
\* 4.5, 5 and 5.5 voxels
PosVals == {18, 20, 22}
\* 1 and 1.5 voxels
RadVals == {4, 6}
ZVals == {1, 2}
Methods == {"bool", "logistic"}

Min(a, b) == IF a < b THEN a ELSE b
Max(a, b) == IF a > b THEN a ELSE b

\* np.round of x quarter voxels, in voxels: halves go to the even neighbour
Round(x) ==
    LET q == x \div 4
        rem == x % 4
    IN IF rem < 2 THEN q
       ELSE IF rem > 2 THEN q + 1
       ELSE IF q % 2 = 0 THEN q ELSE q + 1

\* np.ceil of x quarter voxels, in voxels
Ceil(x) == (x + 3) \div 4

\* Tile(left, right, mins, maxs): the corners clipped
Tile(left, right, mins, maxs) == [l |-> Max(left, mins), r |-> Min(right, maxs)]

\* the voxels tile.slicer addresses, for a tile in voxels
Slicer(tile) == {v \in Voxels : tile.l <= v /\ v < tile.r}

\* Tile.boundingtile of two tiles
boundingtile(t0, t1) == [l |-> Min(t0.l, t1.l), r |-> Max(t0.r, t1.r)]

\* _trans(pos)
_trans(pos) == pos + 4 * inner_l

\* the support tile of _draw_particle, in voxels
DrawTile(pos, rad, zscale) ==
    LET p == Round(_trans(pos))
        r == Round((4 * Ceil(rad)) \div zscale + 4 * support_pad)
    IN Tile(p - r, p + r, 0, FieldShape)

\* inner(rvec, pos, rad, zscale) at voxel v: the signed distance to the
\* sphere's edge, in quarter voxels
inner(v, pos, rad, zscale) == Abs(4 * v - pos) - rad \div zscale

\* sphere_functions[method](dr, rad, alpha).  sphere_bool is 1.0*(dr < 0),
\* where the eps of inner decides a zero distance by the side the voxel is on;
\* sphere_logistic is positive and decreasing in dr, kept here as 64 - dr.
sphere(method, v, pos, rad, zscale) ==
    LET dr == inner(v, pos, rad, zscale)
    IN IF method = "bool"
       THEN (IF dr < 0 \/ (dr = 0 /\ 4 * v > pos) THEN 1 ELSE 0)
       ELSE 64 - dr

\* _draw_particle(pos, rad, sign) on the field particles
_draw_particle(s, pos, rad, sign) ==
    IF rad = 0 THEN s
    ELSE LET tile == DrawTile(pos, rad, s.zscale)
         IN [s EXCEPT !.particles =
                [v \in Voxels |->
                    IF v \in Slicer(tile)
                    THEN @[v] + sign * sphere(s.method, v, _trans(pos), rad, s.zscale)
                    ELSE @[v]]]

RECURSIVE DrawAll(_, _)
DrawAll(s, n) ==
    IF n = 0 THEN s
    ELSE _draw_particle(DrawAll(s, n - 1), s.pos[n], s.rad[n], 1)

\* initialize(): the field from scratch
initialize(s) ==
    DrawAll([s EXCEPT !.particles = [v \in Voxels |-> 0]], Len(s.pos))

\* update(params, values), params the position and radius of particle n
update(s, n, pos, rad) ==
    LET erased == _draw_particle(s, s.pos[n], s.rad[n], -1)
        set == [erased EXCEPT !.pos[n] = pos, !.rad[n] = rad]
    IN _draw_particle(set, pos, rad, 1)

\* update(params, values) with zscale among the params
update_zscale(s, zscale) == initialize([s EXCEPT !.zscale = zscale])

\* _tile(n), at position pos and radius rad: unclipped, in quarter voxels
_tile(pos, rad, zscale) ==
    [l |-> _trans(pos) - rad \div zscale - 4 * support_pad,
     r |-> _trans(pos) + rad \div zscale + 4 * support_pad]

\* get_update_tile(params, values) for particle n
get_update_tile(s, n, pos, rad) ==
    boundingtile(_tile(s.pos[n], s.rad[n], s.zscale), _tile(pos, rad, s.zscale))

\* get_update_tile with zscale among the params: shape.copy()
ShapeTile == [l |-> 0, r |-> 4 * FieldShape]

\* the voxels whose value differs between the fields of s and t
Changed(s, t) == {v \in Voxels : s.particles[v] # t.particles[v]}

\* Component.trigger_update(params, values): a parent applies the update; what
\* a component without a parent does is either nothing or its own update
trigger_update(s, n, pos, rad) ==
    IF s._parent \/ s.standalone_update THEN update(s, n, pos, rad) ELSE s

\* closest_particle(x): argmin, the first index on ties
closest_particle(pos, x) ==
    CHOOSE i \in 1..Len(pos) :
        /\ \A j \in 1..Len(pos) : (pos[i] - x) * (pos[i] - x) <= (pos[j] - x) * (pos[j] - x)
        /\ \A j \in 1..(i - 1) : (pos[j] - x) * (pos[j] - x) > (pos[i] - x) * (pos[i] - x)

\* add_particle(pos, rad); the index it returns is left in last.ind
add_particle(s, pos, rad) ==
    LET s1 == IF Len(s.rad) = 0
              THEN [s EXCEPT !.pos = <<pos>>, !.rad = <<rad>>]
              ELSE [s EXCEPT !.pos = Append(@, pos), !.rad = Append(@, 0)]
        s2 == IF ~s._parent THEN _draw_particle(s1, pos, rad, 1) ELSE s1
        ind == closest_particle(s2.pos, pos)
        s3 == trigger_update(s2, ind, s2.pos[ind], rad)
    IN [s3 EXCEPT !.last.ind = ind]

\* np.delete(seq, ind)
Delete(seq, ind) == SubSeq(seq, 1, ind - 1) \o SubSeq(seq, ind + 1, Len(seq))

\* remove_particle(ind)
remove_particle(s, ind) ==
    IF Len(s.rad) = 0 THEN s
    ELSE LET pos == s.pos[ind]
             rad == s.rad[ind]
             s1 == trigger_update(s, ind, pos, 0)
             s2 == [s1 EXCEPT !.pos = Delete(@, ind), !.rad = Delete(@, ind)]
         IN IF ~s._parent THEN _draw_particle(s2, pos, rad, -1) ELSE s2

NoLast == [op |-> "none", ind |-> 0, tile |-> [l |-> 0, r |-> 0], changed |-> {},
           initialized |-> FALSE]
NoUndo == [valid |-> FALSE, pos |-> 0, rad |-> 0, particles |-> [v \in Voxels |-> 0]]

\* PlatonicSpheresCollection.__init__(pos, rad, shape, zscale, method=method,
\* exact_volume=False), then given a parent or not
NewCollection(pos, rad, zscale, method, parent, standalone) ==
    initialize([pos |-> pos, rad |-> rad, zscale |-> zscale, method |-> method,
                _parent |-> parent, standalone_update |-> standalone,
                particles |-> [v \in Voxels |-> 0],
                ops |-> 0, last |-> NoLast, undo |-> NoUndo, redone |-> FALSE])

\* the collection while another part of the program is looked at
NoCollection == NewCollection(<<>>, <<>>, 1, "bool", FALSE, FALSE)

Particles0 ==
    {<<>>} \cup {<<pr>> : pr \in PosVals \X RadVals}
           \cup {<<pr1, pr2>> : pr1 \in PosVals \X RadVals, pr2 \in PosVals \X RadVals}

InitSC ==
    sc \in {NewCollection([i \in 1..Len(prs) |-> prs[i][1]],
                          [i \in 1..Len(prs) |-> prs[i][2]], zscale, method,
                          parent, standalone) :
               prs \in Particles0, zscale \in ZVals, method \in Methods,
               parent \in BOOLEAN, standalone \in {FALSE}}
       \cup {NewCollection([i \in 1..Len(prs) |-> prs[i][1]],
                           [i \in 1..Len(prs) |-> prs[i][2]], zscale, method,
                           FALSE, TRUE) :
               prs \in Particles0, zscale \in ZVals, method \in Methods}

\* the record of the call just made
Called(s, op, tile, changed, init) ==
    [s EXCEPT !.ops = @ + 1,
              !.last = [op |-> op, ind |-> s.last.ind, tile |-> tile,
                        changed |-> changed, initialized |-> init]]

\* update(params, values) on the position and radius of one particle, after the
\* get_update_tile(params, values) that sizes it
UpdateParticle ==
    /\ UNCHANGED NotSC
    /\ sc.ops < MaxOps
    /\ \E n \in 1..Len(sc.pos), pos \in PosVals, rad \in RadVals :
         sc' = [Called(update(sc, n, pos, rad), "update",
                       get_update_tile(sc, n, pos, rad),
                       Changed(sc, update(sc, n, pos, rad)), FALSE)
                  EXCEPT !.undo = NoUndo, !.redone = FALSE]

\* update(params, values) with zscale among the params
UpdateZscale ==
    /\ UNCHANGED NotSC
    /\ sc.ops < MaxOps
    /\ \E zscale \in ZVals :
         sc' = [Called(update_zscale(sc, zscale), "zscale", ShapeTile,
                       Changed(sc, update_zscale(sc, zscale)), TRUE)
                  EXCEPT !.undo = NoUndo, !.redone = FALSE]

AddParticle ==
    /\ UNCHANGED NotSC
    /\ sc.ops < MaxOps
    /\ Len(sc.pos) < MaxN
    /\ \E pos \in PosVals, rad \in RadVals :
         sc' = [Called(add_particle(sc, pos, rad), "add", NoLast.tile, {}, FALSE)
                  EXCEPT !.redone = sc.undo.valid /\ sc.undo.pos = pos /\ sc.undo.rad = rad,
                         !.undo.valid = FALSE]

RemoveParticle ==
    /\ UNCHANGED NotSC
    /\ sc.ops < MaxOps
    /\ \E ind \in 1..Max(Len(sc.pos), 1) :
         sc' = [Called(remove_particle(sc, ind), "remove", NoLast.tile, {}, FALSE)
                  EXCEPT !.redone = FALSE,
                         !.undo = IF Len(sc.pos) = 0 THEN NoUndo
                                  ELSE [valid |-> TRUE, pos |-> sc.pos[ind],
                                        rad |-> sc.rad[ind], particles |-> sc.particles]]

-----------------------------------------------------------------------------
(* Properties of PlatonicSpheresCollection                                  *)

\* what the stored sphere n adds to voxel v
Contribution(v, n) ==
    IF sc.rad[n] # 0 /\ v \in Slicer(DrawTile(sc.pos[n], sc.rad[n], sc.zscale))
    THEN sphere(sc.method, v, _trans(sc.pos[n]), sc.rad[n], sc.zscale)
    ELSE 0

RECURSIVE SumTo(_, _)
SumTo(v, n) == IF n = 0 THEN 0 ELSE SumTo(v, n - 1) + Contribution(v, n)

\* C7: after any sequence of update, add_particle and remove_particle calls,
\* with or without a parent, particles is the sum of the contributions of the
\* stored spheres at the current zscale, and only an update of zscale
\* re-renders the field.
C7_Superposition ==
    /\ \A v \in Voxels : sc.particles[v] = SumTo(v, Len(sc.pos))
    /\ sc.last.initialized => sc.last.op = "zscale"

\* C8: remove_particle(i) followed by add_particle(pos_i, rad_i) gives back
\* the field particles of before the removal.
C8_RemoveAddRestores == sc.redone => sc.particles = sc.undo.particles

\* C9: the tile of get_update_tile(params, values) contains every voxel whose
\* value update(params, values) changes, and is the whole field tile when
\* zscale is among the params.
C9_UpdateTileCovers ==
    /\ sc.last.op = "update" =>
          \A v \in sc.last.changed : sc.last.tile.l <= 4 * v /\ 4 * v < sc.last.tile.r
    /\ sc.last.op = "zscale" => sc.last.tile = ShapeTile

\* the last call was add_particle and no earlier particle sits where the new one is
AddedApart ==
    /\ sc.last.op = "add"
    /\ \A i \in 1..(Len(sc.pos) - 1) : sc.pos[i] # sc.pos[Len(sc.pos)]

\* C17: add_particle returns the index of the particle it appended (the last
\* one), and under a parent, which applies the requested update, the radius
\* that has grown to rad is that particle's; also when an earlier particle
\* sits at the same position.
C17_AddReturnsNewIndex ==
    sc.last.op = "add" =>
        /\ sc.last.ind = Len(sc.pos)
        /\ sc._parent => sc.rad[Len(sc.pos)] \in RadVals

\* the same for a particle added where no other particle is
C17_AddApartReturnsNewIndex ==
    AddedApart => C17_AddReturnsNewIndex

-----------------------------------------------------------------------------
(* separate_particles_into_groups (src/peri/opt/optimize.py)                *)
(*                                                                         *)
(* The model keeps two of the three axes.  The State s is not in the source *)
(* tree: it has the particle positions, the image padding s.pad, and the    *)
(* tile s.oshape of the padded image, whose corner is the origin.  A Tile   *)
(* contains the points x with l <= x < r on every axis.                     *)

Axes == {1, 2}
\* the most particles of a state of the model
MaxParticles == 2
\* s.pad
pad == 1
\* the unpadded image of s
ImageShape == <<3, 2>>
\* the positions a particle may have: inside the image, in its padding, outside
GridPos == {<<z, x>> : z \in (-2)..4, x \in {-1, 1, 2}}
\* region_size, a scalar (taken on every axis) or one size per axis
RegionSizes == {<<1, 1>>, <<2, 2>>, <<3, 3>>, <<5, 5>>, <<2, 3>>}
\* Python's None where a pair of corners may stand
None == <<>>
\* bounds: None, or the two corners
Bounds == {None, <<<<0, 0>>, <<3, 2>>>>, <<<<0, -1>>, <<2, 2>>>>}

\* s.oshape
oshape == [l |-> [a \in Axes |-> 0], r |-> [a \in Axes |-> ImageShape[a] + 2 * pad]]

\* Tile.translate(dr)
translate(tile, dr) ==
    [l |-> [a \in Axes |-> tile.l[a] + dr[a]], r |-> [a \in Axes |-> tile.r[a] + dr[a]]]

contains_closed(tile, x) == \A a \in Axes : tile.l[a] <= x[a] /\ x[a] <= tile.r[a]
\* Tile.contains(point)
contains(tile, x) == \A a \in Axes : tile.l[a] <= x[a] /\ x[a] < tile.r[a]

\* find_particles_in_tile(s, tile): the indices, as a set
find_particles_in_tile(pos, tile) == {i \in 1..Len(pos) : contains(tile, pos[i])}

\* np.ceil(a / b) for b > 0
CeilDiv(a, b) == (a + b - 1) \div b

\* the bounding tile separate_particles_into_groups works in
BoundingTile(bounds) ==
    IF bounds = None THEN translate(oshape, [a \in Axes |-> -pad])
    ELSE [l |-> bounds[1], r |-> bounds[2]]

\* separate_particles_into_groups(s, region_size, bounds): the list of groups.
\* np.meshgrid lays the offsets out with the first axis running fastest.
separate_particles_into_groups(pos, rs, bounds) ==
    LET bounding_tile == BoundingTile(bounds)
        n_translate == [a \in Axes |->
                           CeilDiv(bounding_tile.r[a] - bounding_tile.l[a], rs[a])]
        tile == [l |-> bounding_tile.l, r |-> [a \in Axes |-> bounding_tile.l[a] + rs[a]]]
        count == IF \E a \in Axes : n_translate[a] <= 0 THEN 0
                 ELSE n_translate[1] * n_translate[2]
        d(t) == <<(t - 1) % n_translate[1], (t - 1) \div n_translate[1]>>
        groups == [t \in 1..count |->
                      find_particles_in_tile(
                          pos, translate(tile, [a \in Axes |-> d(t)[a] * rs[a]]))]
    IN SelectSeq(groups, LAMBDA g : g # {})

NoGroups == [pos |-> <<>>, called |-> FALSE, region_size |-> <<1, 1>>,
             bounds |-> None, groups |-> <<>>]

InitGP ==
    gp \in {[NoGroups EXCEPT !.pos = pos] :
               pos \in UNION {[1..n -> GridPos] : n \in 0..MaxParticles}}

\* the call separate_particles_into_groups(s, region_size, bounds) on the state
Separate ==
    /\ UNCHANGED NotGP
    /\ ~gp.called
    /\ \E rs \in RegionSizes, bounds \in Bounds :
         gp' = [gp EXCEPT !.called = TRUE, !.region_size = rs, !.bounds = bounds,
                          !.groups = separate_particles_into_groups(gp.pos, rs, bounds)]

-----------------------------------------------------------------------------
(* Properties of separate_particles_into_groups                             *)

\* the groups particle i is in
GroupsOf(i) == {k \in 1..Len(gp.groups) : i \in gp.groups[k]}
AllIndices == 1..Len(gp.pos)
Grouped == UNION {gp.groups[k] : k \in 1..Len(gp.groups)}
\* particle i lies within the bounds of the call
InBounds(i) == contains(BoundingTile(gp.bounds), gp.pos[i])

GroupsPartitionBounds ==
    /\ \A k \in 1..Len(gp.groups) : gp.groups[k] # {}
    /\ \A i \in AllIndices : Cardinality(GroupsOf(i)) <= 1
    /\ \A i \in AllIndices : InBounds(i) => Cardinality(GroupsOf(i)) = 1

\* C10 as stated: the groups are non-empty, every particle within the bounds
\* is in exactly one group, and with the default bounds the groups together
\* hold every particle index.
C10_GroupsCoverAll ==
    gp.called => /\ GroupsPartitionBounds
                 /\ gp.bounds = None => Grouped = AllIndices

\* C10, amended: the groups are non-empty, no particle is in two groups, every
\* particle within the bounds is in exactly one; the default bounds are the
\* padded image, so with them the groups hold every particle index when every
\* particle lies in the padded image.
C10_GroupsCoverImage ==
    gp.called => /\ GroupsPartitionBounds
                 /\ gp.bounds = None /\ (\A i \in AllIndices : InBounds(i))
                       => Grouped = AllIndices

C10_Witness ==
    /\ gp.called /\ gp.bounds = None /\ Len(gp.pos) = 2 /\ Len(gp.groups) = 2
    /\ \A i \in AllIndices : InBounds(i)
    /\ gp.region_size = <<2, 3>>

-----------------------------------------------------------------------------
(* LMParticleGroupCollection (src/peri/opt/optimize.py)                     *)
(*                                                                         *)
(* The groups are numbered 1..n (0..n-1 in the code).  Each group has one   *)
(* pair of scratch files (j, tile), "empty" as tempfile creates it and      *)
(* "full" after _dump_j_diftile.  The run of one group's LMParticles either *)
(* returns or raises (its RuntimeError or ValueError pass through _do_run). *)

\* the most groups separate_particles_into_groups returns in the model
MaxGroups == 2
\* the calls made on one collection
MaxGcCalls == 3

Flags(n, v) == [a \in 1..n |-> v]

\* reset(): the groups are made again; with save_J, fresh scratch files and flags
GcReset(g, n) ==
    LET base == [g EXCEPT !.n = n, !.pc = "idle", !.mode = "none", !.a = 0,
                          !.raised_at = "none"]
    IN IF g.save_J
       THEN [base EXCEPT !._has_saved_J = Flags(n, FALSE), !.files = Flags(n, "empty")]
       ELSE base

\* __init__(state, save_J=...), which ends with reset()
NewGroupCollection(save_J, n) ==
    GcReset([save_J |-> save_J, n |-> 0, _has_saved_J |-> <<>>, files |-> <<>>,
             pc |-> "idle", mode |-> "none", a |-> 0, raised_at |-> "none",
             calls |-> 0, loaded_unwritten |-> FALSE], n)

\* the collection while another part of the program is looked at
NoGC == NewGroupCollection(FALSE, 0)

InitGC == gc \in {NewGroupCollection(save_J, n) : save_J \in BOOLEAN, n \in 0..MaxGroups}

\* _dump_j_diftile(group_index, j, tile): both files of the pair are written
_dump_j_diftile_lost(g, a) == g
_dump_j_diftile(g, a) == [g EXCEPT !.files[a] = "full"]

\* _load_j_diftile(group_index): reads both files of the pair
_load_j_diftile(g, a) ==
    [g EXCEPT !.loaded_unwritten = @ \/ g.files[a] # "full"]

\* np.all(self._has_saved_J)
AllSaved(g) == \A a \in 1..g.n : g._has_saved_J[a]

GcCallable == gc.pc \in {"idle", "raised"} /\ gc.calls < MaxGcCalls

\* reset(new_region_size, ...) called by the user
GcResetCall ==
    /\ UNCHANGED NotGC
    /\ GcCallable
    /\ \E n \in 0..MaxGroups : gc' = [GcReset(gc, n) EXCEPT !.calls = @ + 1]

\* do_run_1() / do_run_2(): _do_run(mode) starts
GcDoRun ==
    /\ UNCHANGED NotGC
    /\ GcCallable
    /\ \E mode \in {"1", "2"} :
         gc' = [gc EXCEPT !.pc = "run", !.mode = mode, !.a = 1, !.raised_at = "none",
                          !.calls = @ + 1]

\* do_internal_run(): the two guards, then _do_run('internal') starts
GcDoInternalRun ==
    /\ UNCHANGED NotGC
    /\ GcCallable
    /\ LET called == [gc EXCEPT !.mode = "internal", !.a = 0, !.calls = @ + 1]
       IN gc' = IF ~gc.save_J
                THEN [called EXCEPT !.pc = "raised", !.raised_at = "save_J"]
                ELSE IF ~AllSaved(gc)
                THEN [called EXCEPT !.pc = "raised", !.raised_at = "has_saved_J"]
                ELSE [called EXCEPT !.pc = "run", !.a = 1, !.raised_at = "none"]

\* one pass of the for loop of _do_run, or its end
GcGroup ==
    /\ UNCHANGED NotGC
    /\ gc.pc = "run"
    /\ IF gc.a > gc.n
       THEN gc' = [gc EXCEPT !.pc = "idle", !.a = 0]
       ELSE LET a == gc.a
                loaded == IF gc.mode = "internal" THEN _load_j_diftile(gc, a) ELSE gc
                dumped == IF gc.save_J /\ gc.mode # "internal"
                          THEN [_dump_j_diftile(loaded, a) EXCEPT !._has_saved_J[a] = TRUE]
                          ELSE loaded
            IN \/ gc' = [loaded EXCEPT !.pc = "raised", !.raised_at = "group"]
               \/ gc' = [dumped EXCEPT !.a = a + 1]

-----------------------------------------------------------------------------
(* Properties of LMParticleGroupCollection                                  *)

\* do_internal_run was the last call and it passed its guards
GcInternalPassed == gc.mode = "internal" /\ gc.raised_at \notin {"save_J", "has_saved_J"}

\* C11: do_internal_run raises RuntimeError unless save_J is set and every
\* group's scratch pair has been written by a do_run_1 / do_run_2 pass since
\* the last reset(); no group's pair is loaded before it was written in full.
C11_InternalRunGuard ==
    /\ GcInternalPassed => gc.save_J /\ AllSaved(gc)
    /\ gc.mode = "internal" /\ ~GcInternalPassed => gc.pc = "raised" /\ ~(gc.save_J /\ AllSaved(gc))
    /\ gc.save_J => \A a \in 1..gc.n : gc._has_saved_J[a] => gc.files[a] = "full"
    /\ ~gc.loaded_unwritten

\* the third call is do_internal_run, and it is loading the second group's pair
C11_Witness ==
    /\ gc.mode = "internal" /\ gc.pc = "run" /\ gc.a = 2 /\ gc.n = 2
    /\ gc.calls = 3

-----------------------------------------------------------------------------
(* AugmentedState (src/peri/opt/optimize.py)                                *)
(*                                                                         *)
(* The wrapped State holds two particles; its ordinary parameter given to   *)
(* the AugmentedState is the depth of the first particle (param_names may   *)
(* hold positions, never radii).  A radius is kept as [m, e], the number    *)
(* m * exp(e): for integers m the pair is determined by the number.  With   *)
(* rz_order <= 2 the Legendre series is c0 + c1 * x, x the normalised depth. *)

\* half of oshape.shape[0]; the depths of the model are 0, zmid and 2 zmid
zmid == 2
\* the calls made on one augmented state
MaxAuCalls == 3

Depths == {0, zmid, 2 * zmid}
CoefVals == {-1, 0, 1}
Coefs(n) == [1..n -> CoefVals]

\* r * exp(p)
TimesExp(r, p) == [m |-> r.m, e |-> r.e + p]

\* np.polynomial.legendre.legval((z - zmid) / zmid, coeffs), and 0 * z without coeffs
_poly(coeffs, z) ==
    LET x == (z - zmid) \div zmid
    IN (IF Len(coeffs) >= 1 THEN coeffs[1] ELSE 0) + (IF Len(coeffs) >= 2 THEN coeffs[2] * x ELSE 0)

\* update_rscl_x_params(new_rscl_params): every radius from the captured ones
update_rscl_x_params_live(a, new) ==
    [a EXCEPT !.rscl = new,
              !.st.rad = [i \in DOMAIN a.st.rad |-> TimesExp(a.st.rad[i], _poly(new, a.st.z[i]))]]
update_rscl_x_params(a, new) ==
    [a EXCEPT !.rscl = new,
              !.st.rad = [i \in DOMAIN a.st.rad |->
                             TimesExp(a._initial_rad[i], _poly(new, a._initial_pos[i]))]]

\* AugmentedState.update(param_vals): globals are param_vals[globals_mask]
AuUpdated(a, globals, rscl) ==
    [update_rscl_x_params(a, rscl) EXCEPT !.st.z[1] = globals, !.globals = globals]

\* AugmentedState.reset()
AuResetted(a) ==
    [a EXCEPT !._initial_rad = a.st.rad, !._initial_pos = a.st.z,
              !.rscl = [k \in 1..a.rz_order |-> 0]]

\* AugmentedState(state, param_names, rz_order); captured is what the live
\* State held at the last reset()
NewAugmentedState(z, rz_order) ==
    LET st == [rad |-> <<[m |-> 4, e |-> 0], [m |-> 6, e |-> 0]>>, z |-> z]
        a == AuResetted([st |-> st, rz_order |-> rz_order, globals |-> z[1],
                         rscl |-> <<>>, _initial_rad |-> <<>>, _initial_pos |-> <<>>,
                         captured |-> st, last |-> "init", calls |-> 0])
    IN a

NoAU == NewAugmentedState(<<0, 0>>, 0)

InitAU == au \in {NewAugmentedState(z, n) : z \in [1..2 -> Depths], n \in 0..2}

AuUpdate ==
    /\ UNCHANGED NotAU
    /\ au.calls < MaxAuCalls
    /\ \E g \in Depths, c \in Coefs(au.rz_order) :
         au' = [AuUpdated(au, g, c) EXCEPT !.last = "update", !.calls = @ + 1]

AuUpdateRscl ==
    /\ UNCHANGED NotAU
    /\ au.calls < MaxAuCalls
    /\ \E c \in Coefs(au.rz_order) :
         au' = [update_rscl_x_params(au, c) EXCEPT !.last = "update_rscl", !.calls = @ + 1]

AuReset ==
    /\ UNCHANGED NotAU
    /\ au.calls < MaxAuCalls
    /\ au' = [AuResetted(au) EXCEPT !.captured = au.st, !.last = "reset", !.calls = @ + 1]

-----------------------------------------------------------------------------
(* Properties of AugmentedState                                             *)

\* C12: after any update / update_rscl_x_params calls since the last reset(),
\* every radius of the State is the radius the State held at that reset()
\* times exp(polynomial(depth held at that reset())) with the current
\* coefficients; with all-zero coefficients it is the captured radius; and
\* reset() captures the live radii and depths and zeroes the coefficients.
C12_RadiiFromCaptured ==
    /\ \A i \in 1..2 :
          au.st.rad[i] = TimesExp(au.captured.rad[i], _poly(au.rscl, au.captured.z[i]))
    /\ (\A k \in 1..au.rz_order : au.rscl[k] = 0) => au.st.rad = au.captured.rad
    /\ au.last = "reset" =>
          /\ au._initial_rad = au.st.rad /\ au._initial_pos = au.st.z
          /\ \A k \in 1..au.rz_order : au.rscl[k] = 0

\* rescaled, reset, and then an update that rescales again and moves the first
\* particle
C12_Witness ==
    /\ au.calls = 3 /\ au.last = "update"
    /\ au.captured.rad[2].e # 0 /\ au.st.rad[2].e # au.captured.rad[2].e
    /\ au.st.z[1] # au.captured.z[1]

-----------------------------------------------------------------------------
(* burn (src/peri/opt/optimize.py)                                          *)
(*                                                                         *)
(* s.error is a numpy float in integer units; the three fits called by     *)
(* burn (do_levmarq, do_levmarq_all_particle_groups,                        *)
(* do_levmarq_n_directions) leave the State with any error of BurnErrs.     *)
(* log holds what the current pass of the loop has done so far.            *)

\* the largest n_loop of the model
MaxLoop == 3
\* fractol is 1 / burn_fractol_inv
burn_fractol_inv == 2

BurnErrs == {0, 1, 2, 5}
BurnErrtols == {0, 2}
BurnModes == {"burn", "do-particles", "polish"}

\* desc = mode + 'ing' if mode != 'do-particles' else 'doing-particles'
DefaultDesc(mode) ==
    CASE mode = "burn" -> "burning"
      [] mode = "polish" -> "polishing"
      [] OTHER -> "doing-particles"

\* 2d: (derr / new_err < fractol) or (derr < errtol), in numpy floats: a zero
\* new_err gives +inf, nan or -inf
BurnBreaks_frac_only(b, derr, new_err) ==
    IF new_err = 0 THEN derr < 0 ELSE derr * burn_fractol_inv < new_err
BurnBreaks(b, derr, new_err) ==
    \/ IF new_err = 0 THEN derr < 0 ELSE derr * burn_fractol_inv < new_err
    \/ derr < b.errtol

\* the condition on the global fit
RunsGlobals_after_first(b) == b.a # 0
RunsGlobals(b) == b.a # 0 \/ b.mode # "do-particles"

\* if desc is not None: states.save(s, desc=desc)
Saved(b) ==
    IF b.desc = "None" THEN b
    ELSE [b EXCEPT !.log = Append(@, [ev |-> "save", what |-> b.desc])]

\* a fit ran and left the State with error err
Fitted(b, what, err) ==
    [b EXCEPT !.error = err, !.log = Append(@, [ev |-> "fit", what |-> what])]

\* burn(s, n_loop, desc, errtol, mode, do_line_min) up to its loop
NewBurn(error, n_loop, desc, tol, mode, do_line_min) ==
    [error |-> error, n_loop |-> n_loop, errtol |-> tol, mode |-> mode,
     desc |-> IF desc = "" THEN DefaultDesc(mode) ELSE desc,
     do_line_min |-> do_line_min, a |-> 0, pc |-> "loop", start_err |-> 0,
     n_delta_vals |-> 0, n_directions |-> 0, log |-> <<>>,
     iterations |-> 0, first_error |-> error,
     checked |-> [derr |-> 0, new_err |-> 0, valid |-> FALSE]]

NoBurn == NewBurn(0, 0, "None", 0, "burn", FALSE)

InitBN ==
    bn \in {NewBurn(e, n, d, t, m, l) :
               e \in BurnErrs, n \in 0..MaxLoop, d \in {"", "None"}, t \in BurnErrtols,
               m \in BurnModes, l \in BOOLEAN}

\* the head of the for loop: the next pass starts, or burn returns
BurnLoop ==
    /\ UNCHANGED NotBN
    /\ bn.pc = "loop"
    /\ bn' = IF bn.a < bn.n_loop
             THEN [bn EXCEPT !.pc = "globals", !.start_err = bn.error, !.log = <<>>]
             ELSE [bn EXCEPT !.pc = "done"]

\* 2a: do_levmarq on the globals, and the checkpoint
BurnGlobals ==
    /\ UNCHANGED NotBN
    /\ bn.pc = "globals"
    /\ \E err \in BurnErrs :
         bn' = [Saved(IF RunsGlobals(bn) THEN Fitted(bn, "globals", err) ELSE bn)
                   EXCEPT !.pc = "particles"]

\* 2b: do_levmarq_all_particle_groups, the checkpoint, and the step kept
BurnParticles ==
    /\ UNCHANGED NotBN
    /\ bn.pc = "particles"
    /\ \E err \in BurnErrs :
         bn' = [Saved(Fitted(bn, "particles", err))
                   EXCEPT !.pc = "linemin", !.n_delta_vals = @ + 1]

\* 2c and 2d: do_levmarq_n_directions over _delta_vals[-3:], the checkpoint,
\* and the test that ends the loop
BurnLineMin ==
    /\ UNCHANGED NotBN
    /\ bn.pc = "linemin"
    /\ \E err \in BurnErrs :
         LET lined == IF bn.do_line_min
                      THEN [Saved(Fitted(bn, "linemin", err)) EXCEPT
                               !.n_directions = IF bn.n_delta_vals < 3
                                                THEN bn.n_delta_vals ELSE 3]
                      ELSE bn
             new_err == lined.error
             derr == bn.start_err - new_err
             tested == [lined EXCEPT !.iterations = @ + 1,
                           !.checked = [derr |-> derr, new_err |-> new_err, valid |-> TRUE]]
         IN bn' = IF BurnBreaks(bn, derr, new_err)
                  THEN [tested EXCEPT !.pc = "done"]
                  ELSE [tested EXCEPT !.pc = "loop", !.a = @ + 1]

-----------------------------------------------------------------------------
(* Properties of burn                                                       *)

\* the whole-iteration decrease of the pass just tested is below a tolerance
BelowTolerance ==
    LET derr == bn.checked.derr
        new_err == bn.checked.new_err
    IN \/ new_err > 0 /\ derr * burn_fractol_inv < new_err
       \/ new_err = 0 /\ derr < 0
       \/ derr < bn.errtol

BurnBounded ==
    /\ bn.iterations <= bn.n_loop
    /\ bn.pc = "loop" /\ bn.checked.valid => ~BelowTolerance
    /\ bn.pc = "done" /\ bn.checked.valid => BelowTolerance \/ bn.iterations = bn.n_loop
    /\ bn.pc = "done" /\ ~bn.checked.valid => bn.n_loop = 0

\* no second pass of the loop has started
OnePass == bn.iterations <= 1 /\ (bn.a = 0 \/ bn.pc \in {"loop", "done"})

\* C13 as stated: burn makes at most n_loop passes and stops right after the
\* first pass whose error decrease is below fractol (relative) or errtol; from
\* a State of zero error it makes at most one pass.
C13_BurnStops ==
    /\ BurnBounded
    /\ bn.first_error = 0 => OnePass

\* C13, amended: the same, the last part for errtol > 0.
C13_BurnStopsPositiveErrtol ==
    /\ BurnBounded
    /\ bn.first_error = 0 /\ bn.errtol > 0 => OnePass

\* a second pass has ended the loop on its tolerance, before n_loop
C13_Witness ==
    /\ bn.pc = "done" /\ bn.iterations = 2 /\ bn.n_loop = 3 /\ BelowTolerance
    /\ bn.checked.derr > 0

\* the pass of the loop the log belongs to, and whether it is over
LoggedPass == IF bn.pc \in {"loop", "done"} THEN bn.iterations - 1 ELSE bn.a
PassOver == bn.pc \in {"loop", "done"} /\ bn.iterations >= 1

\* the fits the pass must have run by now, in their order
FitsDue ==
    LET g == IF LoggedPass = 0 /\ bn.mode = "do-particles" THEN <<>> ELSE <<"globals">>
        p == <<"particles">>
        l == IF bn.do_line_min THEN <<"linemin">> ELSE <<>>
    IN CASE bn.pc = "globals" -> <<>>
         [] bn.pc = "particles" -> g
         [] bn.pc = "linemin" -> g \o p
         [] PassOver -> g \o p \o l
         [] OTHER -> <<>>

FitsLogged ==
    LET fits == SelectSeq(bn.log, LAMBDA x : x.ev = "fit")
    IN [i \in 1..Len(fits) |-> fits[i].what]

-----------------------------------------------------------------------------
(* LMParticles.update_function (src/peri/opt/optimize.py)                   *)
(*                                                                         *)
(* Lengths are integers in units of 1e-3.  The engine holds the parameters  *)
(* of one particle, in the order of param_particle: x, y, z and, with       *)
(* include_rad, a.  Axis 1 of pad and ishape is z, axis 2 is y, axis 3 is x. *)

\* self._MINRAD, self._MAXRAD, self._MINDIST
_MINRAD == 1
_MAXRAD == 200000
_MINDIST == 1

\* s.pad and s.ishape.shape of the model, per axis (z, y, x)
pad3 == <<2000, 1000, 1000>>
ishape3 == <<3000, 2000, 4000>>

\* the values a step may propose for one parameter
Proposed == {-1000000, -2000, -1000, 0, 1, 2500, 3999, 5000, 200001}

\* np.clip(v, lo, hi)
clip(v, lo, hi) == IF v < lo THEN lo ELSE IF v > hi THEN hi ELSE v

\* the axis a with x[-1] == 'zyx'[a]
AxisOf_xyz(name) == CASE name = "x" -> 1 [] name = "y" -> 2 [] OTHER -> 3
AxisOf(name) == CASE name = "z" -> 1 [] name = "y" -> 2 [] OTHER -> 3

\* update_function(values), 1. Clipping values
Clipped(names, values) ==
    [i \in DOMAIN values |->
        IF names[i] = "a" THEN clip(values[i], _MINRAD, _MAXRAD)
        ELSE LET a == AxisOf(names[i])
             IN clip(values[i], _MINDIST - pad3[a], ishape3[a] + pad3[a] - _MINDIST)]

\* LMParticles(state, particles, include_rad)
NewLMParticles(include_rad, values) ==
    [param_names |-> IF include_rad THEN <<"x", "y", "z", "a">> ELSE <<"x", "y", "z">>,
     values |-> values, applied |-> <<>>, called |-> FALSE]

NoPX == NewLMParticles(FALSE, <<0, 0, 0>>)

InitPX ==
    px \in {NewLMParticles(r, v) : r \in {TRUE}, v \in [1..4 -> Proposed]}
           \cup {NewLMParticles(r, v) : r \in {FALSE}, v \in [1..3 -> Proposed]}

\* update_function(values): the clipped values go to state.update
PxUpdateFunction ==
    /\ UNCHANGED NotPX
    /\ ~px.called
    /\ px' = [px EXCEPT !.called = TRUE, !.applied = Clipped(px.param_names, px.values)]

-----------------------------------------------------------------------------
(* Properties of LMParticles.update_function                                *)

\* C15: every vector update_function applies to the State has each radius
\* within [1e-3, 200] and each position coordinate on axis a within
\* [1e-3 - pad[a], ishape[a] + pad[a] - 1e-3], whatever (finite) values the
\* step proposed; values already inside are applied as they are.
C15_UpdateClipped ==
    px.called =>
        \A i \in DOMAIN px.applied :
            LET v == px.applied[i]
                lo == CASE px.param_names[i] = "a" -> 1
                        [] px.param_names[i] = "z" -> 1 - pad3[1]
                        [] px.param_names[i] = "y" -> 1 - pad3[2]
                        [] px.param_names[i] = "x" -> 1 - pad3[3]
                hi == CASE px.param_names[i] = "a" -> 200000
                        [] px.param_names[i] = "z" -> ishape3[1] + pad3[1] - 1
                        [] px.param_names[i] = "y" -> ishape3[2] + pad3[2] - 1
                        [] px.param_names[i] = "x" -> ishape3[3] + pad3[3] - 1
            IN /\ lo <= v /\ v <= hi
               /\ lo <= px.values[i] /\ px.values[i] <= hi => v = px.values[i]

\* a step past the far x edge, a depth inside, and a radius above the maximum
C15_Witness ==
    /\ px.called /\ Len(px.values) = 4
    /\ px.values[1] = 200001 /\ px.applied[1] = 4999
    /\ px.values[3] = 2500 /\ px.applied[3] = 2500
    /\ px.values[4] = 200001 /\ px.applied[4] = 200000

-----------------------------------------------------------------------------
(* LMEngine.find_LM_updates with the acceleration correction                *)
(* An engine of one parameter: J.J^T, the gradient, the steps and the       *)
(* damping are integers, and the damping's diagonal values are ones.        *)

\* max_accel_correction and increase_damp_factor, the constructor's defaults
max_accel_correction == 1
increase_damp_factor == 3

\* the subblock argument: None, a mask with its entry set, a mask with none set
Subblocks == {"None", "set", "empty"}

\* grad, J.J^T, self.damping, and the correction calc_accel_correction returns
\* (it depends on the residuals at param_vals and at +-0.1 of the step)
AccelGrads == {-60, 0, 60}
AccelJTJs == {1, 3}
AccelDampings == {1, 3}
AccelCorrs == {-60, -15, 0, 15, 60}

\* _calc_damped_jtj: JTJ + damping * diag
_calc_damped_jtj(JTJ, damping) == JTJ + damping

\* _calc_lm_step: the solution delta of damped_JTJ * delta = grad
_calc_lm_step(damped_JTJ, grad) == grad \div damped_JTJ

\* nrm_corr / nrm_d0 < max_accel_correction; with nrm_d0 = 0 the quotient is
\* inf or nan, which is not below anything
Trusted(corr, delta0) ==
    delta0 # 0 /\ Abs(corr) < max_accel_correction * Abs(delta0)

NewAccel(use_accel, damping) ==
    [use_accel |-> use_accel, damping |-> damping, called |-> FALSE,
     subblock |-> "None", do_correct_damping |-> TRUE, grad |-> 0, JTJ |-> 1,
     damping0 |-> damping, corr |-> 0, delta |-> 0, raised |-> "none"]

NoAccel == NewAccel(FALSE, 1)

InitAC == \E use_accel \in BOOLEAN : ac = NewAccel(use_accel, 1)

\* find_LM_updates(grad, do_correct_damping, subblock) on engine e, whose rows
\* of J give JTJ and whose objective gives the correction corr
find_LM_updates(e, grad, do_correct_damping, subblock, JTJ, corr) ==
    LET call == [e EXCEPT !.called = TRUE, !.subblock = subblock,
                          !.do_correct_damping = do_correct_damping,
                          !.grad = grad, !.JTJ = JTJ, !.damping0 = e.damping,
                          !.corr = corr, !.delta = 0, !.raised = "none"]
        delta0 == _calc_lm_step(_calc_damped_jtj(JTJ, e.damping), grad)
        increased == e.damping * increase_damp_factor
    IN IF subblock = "empty"
       THEN [call EXCEPT !.raised = "ValueError"]
       ELSE IF ~e.use_accel
       THEN [call EXCEPT !.delta = delta0]
       ELSE IF Trusted(corr, delta0)
       THEN [call EXCEPT !.delta = delta0 + corr]
       ELSE IF ~do_correct_damping
       THEN [call EXCEPT !.delta = delta0]
       ELSE IF subblock = "None"
       \* the local name JTJ is bound in the sub-block branch only: the line
       \* after increase_damping() reads it unbound
       THEN [call EXCEPT !.damping = increased, !.raised = "UnboundLocalError"]
       ELSE [call EXCEPT !.damping = increased,
                         !.delta = _calc_lm_step(_calc_damped_jtj(JTJ, increased), grad)]

\* one call of find_LM_updates, on an engine whose damping is d
AcFindLMUpdates ==
    /\ \E d \in AccelDampings, grad \in AccelGrads, dcd \in BOOLEAN,
          subblock \in Subblocks, JTJ \in AccelJTJs, corr \in AccelCorrs :
          ac' = find_LM_updates([ac EXCEPT !.damping = d], grad, dcd, subblock, JTJ, corr)
    /\ UNCHANGED NotAC

\* the plain step of the recorded call, at damping dmp
PlainStep(dmp) == _calc_lm_step(_calc_damped_jtj(ac.JTJ, dmp), ac.grad)

\* C16: with use_accel, the correction is added to the step only when its norm
\* is below max_accel_correction times the norm of the plain step; otherwise,
\* when do_correct_damping is set, the damping is increased once and the step
\* returned is the plain step at the new damping, for subblock None as well as
\* for a sub-block; without do_correct_damping the plain step is returned.
C16_AccelCorrection ==
    (ac.called /\ ac.use_accel /\ ac.subblock # "empty") =>
        IF Trusted(ac.corr, PlainStep(ac.damping0))
        THEN /\ ac.raised = "none"
             /\ ac.damping = ac.damping0
             /\ ac.delta = PlainStep(ac.damping0) + ac.corr
        ELSE IF ac.do_correct_damping
        THEN /\ ac.raised = "none"
             /\ ac.damping = ac.damping0 * increase_damp_factor
             /\ ac.delta = PlainStep(ac.damping)
        ELSE /\ ac.raised = "none"
             /\ ac.damping = ac.damping0
             /\ ac.delta = PlainStep(ac.damping0)

\* the same for sub-block steps only, where the code does what C16 says
C16_SubblockOnly ==
    (ac.subblock = "set") => C16_AccelCorrection

-----------------------------------------------------------------------------
(* The NaN tests of the engine adapters and of the Jacobian refreshes       *)
(* A residual vector, and J with J.J^T, is "nan" when it holds a NaN and    *)
(* "fin" when it holds none; arithmetic on a NaN gives a NaN.               *)

Floats == {"fin", "nan"}
Adapters == {"LMFunction", "LMOptObj", "LMGlobals", "LMParticles", "LMAugmentedState"}

\* the calls made on one engine
MaxNanCalls == 3

\* the adapters whose update_function tests the residuals after the update
ChecksResiduals(adapter) == adapter \in {"LMGlobals", "LMParticles", "LMAugmentedState"}

\* the result of arithmetic on a and b
Arith(a, b) == IF a = "nan" \/ b = "nan" THEN "nan" ELSE "fin"

NewNan(adapter) ==
    [adapter |-> adapter, residuals |-> "fin", J |-> "fin", op |-> "init",
     nan_left |-> FALSE, raised |-> FALSE, calls |-> 0]

NoNan == NewNan("LMFunction")

InitNN == \E adapter \in Adapters : nn = NewNan(adapter)

\* update_function(param_vals), where the model at param_vals has residuals res
update_function(e, res) ==
    [e EXCEPT !.residuals = res,
              !.nan_left = @ \/ res = "nan",
              !.raised = ChecksResiduals(e.adapter) /\ res = "nan"]

\* the test that ends update_J and update_select_J
RaiseOnNanJ(e) == [e EXCEPT !.raised = (e.J = "nan")]

\* update_J(): calc_J gives j
update_J(e, j) == RaiseOnNanJ([e EXCEPT !.J = j])

\* update_Broyden_J(): the rank-1 update along param_vals - _last_vals, divided
\* by its norm, which is zero when the parameters have not moved
update_Broyden_J(e, moved) ==
    [e EXCEPT !.J = IF moved THEN Arith(e.J, e.residuals) ELSE "nan"]

\* update_eig_J(): the model is moved along a stiff direction, where its
\* residuals are res1, J gets a rank-1 update, and the model is put back
update_eig_J(e, res1) ==
    LET probed == update_function(e, res1)
    IN IF probed.raised THEN probed
       ELSE update_function([probed EXCEPT !.J = Arith(e.J, Arith(res1, e.residuals))],
                            e.residuals)

\* update_select_J(blk): LMGlobals sets the rows from gradmodel, which gives j;
\* the other adapters move the model along each parameter of blk (residuals
\* res1), set the rows from the differences and put the model back
update_select_J(e, res1, j) ==
    LET start == update_function(e, e.residuals)
        probed == update_function(start, res1)
        rows == IF e.adapter = "LMGlobals" THEN j ELSE Arith(res1, e.residuals)
    IN IF start.raised THEN start
       ELSE IF e.adapter = "LMGlobals"
       THEN RaiseOnNanJ([start EXCEPT !.J = Arith(e.J, rows)])
       ELSE IF probed.raised THEN probed
       ELSE RaiseOnNanJ(update_function([probed EXCEPT !.J = Arith(e.J, rows)], e.residuals))

\* a call op on the engine, which gives e
NanCall(op, e) ==
    /\ ~nn.raised
    /\ nn.calls < MaxNanCalls
    /\ nn' = [e EXCEPT !.op = op, !.calls = nn.calls + 1]
    /\ UNCHANGED NotNN

\* the engine as a call finds it
NanBefore == [nn EXCEPT !.nan_left = FALSE]

NnUpdateFunction == \E res \in Floats : NanCall("update_function", update_function(NanBefore, res))
NnUpdateJ == \E j \in Floats : NanCall("update_J", update_J(NanBefore, j))
NnUpdateBroydenJ == \E moved \in BOOLEAN : NanCall("update_Broyden_J", update_Broyden_J(NanBefore, moved))
NnUpdateEigJ == \E res1 \in Floats : NanCall("update_eig_J", update_eig_J(NanBefore, res1))
NnUpdateSelectJ ==
    \E res1 \in Floats, j \in Floats : NanCall("update_select_J", update_select_J(NanBefore, res1, j))

\* the call was one of the Jacobian refreshes
WasRefresh == nn.op \in {"update_J", "update_Broyden_J", "update_eig_J", "update_select_J"}

\* C18: in every adapter a model update that leaves NaN in the residuals
\* raises, and every Jacobian refresh (full, Broyden, eigen-direction,
\* selected rows) raises when it leaves J or J.J^T with a NaN.
C18_NanRaises ==
    /\ nn.nan_left => nn.raised
    /\ (WasRefresh /\ nn.J = "nan") => nn.raised

\* the same for the adapters and the refreshes that have the tests: LMGlobals,
\* LMParticles and LMAugmentedState, update_J and update_select_J
C18_TestedPaths ==
    /\ (ChecksResiduals(nn.adapter) /\ nn.nan_left) => nn.raised
    /\ (nn.op \in {"update_J", "update_select_J"} /\ nn.J = "nan") => nn.raised

-----------------------------------------------------------------------------
(* LMEngine.do_stuckJ_run on an engine of n parameters                      *)
(* do_internal_run is seen from outside: it gets a sub-block and returns    *)
(* the number of good steps it took, or raises.                             *)

\* the most parameters of an engine
MaxParams == 4

NewStuckJ(n) ==
    [n |-> n, pc |-> "start", active_list |-> <<>>, good_params |-> {},
     bad_params |-> {}, passed |-> {}, popped |-> 0, selected |-> {},
     n_bad_steps |-> 0, try |-> 0, raised |-> "none"]

NoStuck == NewStuckJ(1)

InitSK == \E n \in 1..MaxParams : sk = NewStuckJ(n)

\* what a do_internal_run on a sub-block may do: take a good step, take none,
\* or not enter its loop at all (check_completion holds already)
RunOutcomes == {"good", "bad", "skipped"}

\* do_internal_run(subblock=blk): the sub-block is noted; find_LM_updates
\* raises ValueError on an empty one when the loop is entered
do_internal_run(s, blk, outcome) ==
    IF blk = {} /\ outcome # "skipped"
    THEN [s EXCEPT !.passed = @ \cup {blk}, !.raised = "ValueError", !.pc = "raised"]
    ELSE [s EXCEPT !.passed = @ \cup {blk}]

\* n_steps of that run
n_steps(blk, outcome) == IF outcome = "good" /\ blk # {} THEN 1 ELSE 0

\* step 0: the full block, halved
StStartStep ==
    /\ sk.pc = "start"
    /\ \E h \in halve_randomly(1..sk.n) :
          sk' = [sk EXCEPT !.active_list = <<h[1], h[2]>>, !.pc = "loop"]

StStart == StStartStep /\ UNCHANGED NotSK

\* steps 1 to 4: one pass of the while loop over active_list, with the
\* outcomes the engine leaves to do_internal_run
StBlockStep(outcomes) ==
    /\ sk.pc = "loop"
    /\ sk.active_list # <<>>
    /\ \E outcome \in outcomes, h \in halve_randomly(Head(sk.active_list)) :
          LET cur_block == Head(sk.active_list)
              popped == [sk EXCEPT !.active_list = Tail(@), !.popped = @ + 1]
              ran == do_internal_run(popped, cur_block, outcome)
          IN sk' = IF ran.raised # "none" THEN ran
                   ELSE IF n_steps(cur_block, outcome) > 0
                   THEN [ran EXCEPT !.good_params = @ \cup cur_block]
                   ELSE IF Cardinality(cur_block) > stop_halving
                   THEN [ran EXCEPT !.active_list = @ \o <<h[1], h[2]>>]
                   ELSE [ran EXCEPT !.bad_params = @ \cup cur_block]

StBlock == StBlockStep(RunOutcomes) /\ UNCHANGED NotSK

\* steps 5 to 7: the run with the good parameters, update_select_J on the bad
\* ones, the run with all parameters and, when it takes no step, the first run
\* with the bad ones
StAfterStep(outcomes) ==
    /\ sk.pc = "loop"
    /\ sk.active_list = <<>>
    /\ \E o_good \in outcomes, o_full \in outcomes, o_bad \in outcomes :
          LET good == IF sk.good_params # {}
                      THEN do_internal_run(sk, sk.good_params, o_good) ELSE sk
              selected == [good EXCEPT !.selected = {sk.bad_params}]
              full == do_internal_run(selected, 1..sk.n, o_full)
              bad == do_internal_run(full, sk.bad_params, o_bad)
          IN sk' = IF sk.bad_params = {} THEN [good EXCEPT !.pc = "done"]
                   ELSE IF n_steps(1..sk.n, o_full) > 0 THEN [full EXCEPT !.pc = "done"]
                   ELSE [bad EXCEPT !.pc = "retry",
                                    !.n_bad_steps = n_steps(sk.bad_params, o_bad)]

StAfter == StAfterStep(RunOutcomes) /\ UNCHANGED NotSK

\* the while loop on the bad parameters, and the last run with all parameters
StRetryStep(terminates, outcomes) ==
    /\ sk.pc = "retry"
    /\ \E terminate \in terminates, outcome \in outcomes :
          sk' = IF sk.n_bad_steps = 0 /\ ~terminate /\ sk.try < _max_inner_loop
                THEN [do_internal_run(sk, sk.bad_params, outcome)
                         EXCEPT !.try = @ + 1,
                                !.n_bad_steps = n_steps(sk.bad_params, outcome)]
                ELSE IF sk.try >= _max_inner_loop
                THEN [sk EXCEPT !.pc = "done"]
                ELSE [do_internal_run(sk, 1..sk.n, outcome) EXCEPT !.pc = "done"]

StRetry == StRetryStep(BOOLEAN, RunOutcomes) /\ UNCHANGED NotSK

\* do_stuckJ_run has left its while loop over active_list
Bisected == sk.pc \in {"retry", "done"} \/ (sk.pc = "loop" /\ sk.active_list = <<>>)

\* C19: for stop_halving = 1 and n >= 1 parameters the bisection ends (it pops
\* at most 2n blocks and retries at most _max_inner_loop times), no empty
\* sub-block is passed to do_internal_run, every parameter ends in exactly one
\* of good_params and bad_params, and update_select_J gets the bad parameters
\* only.
C19_Bisection ==
    /\ sk.popped <= 2 * sk.n /\ sk.try <= _max_inner_loop
    /\ {} \notin sk.passed
    /\ sk.raised = "none"
    /\ Bisected => /\ sk.good_params \cup sk.bad_params = 1..sk.n
                   /\ sk.good_params \cap sk.bad_params = {}
    /\ \A blk \in sk.selected : blk = sk.bad_params /\ blk # {}

\* the same for an engine of two or more parameters
C19_BisectionTwoOrMore ==
    sk.n >= 2 => C19_Bisection

-----------------------------------------------------------------------------
(* LMEngine.check_completion with costol                                    *)
(* Cosines and costol are in hundredths; the errors and the parameters are  *)
(* in the units of the engine above.                                        *)

\* self.costol: None, or a value
Costols == {[enabled |-> FALSE, value |-> 0], [enabled |-> TRUE, value |-> 30],
            [enabled |-> TRUE, value |-> 90]}
\* what calc_model_cosine() returns
Cosines == {0, 50, 100}
\* self.error and self._last_error
CosErrors == {0, 10, 20, 40}
\* self.param_vals, with self._last_vals at the origin
CosVals == {[i \in PIdx |-> 0], [i \in PIdx |-> IF i = 1 THEN 3 ELSE 0]}

NewCos(costol) ==
    [costol |-> costol, called |-> FALSE, param_vals |-> [i \in PIdx |-> 0],
     _last_vals |-> [i \in PIdx |-> 0], error |-> 10, _last_error |-> 10,
     model_cosine |-> 0, terminate |-> FALSE, raised |-> "none"]

NoCos == NewCos([enabled |-> FALSE, value |-> 0])

InitCC == \E costol \in Costols : cc = NewCos(costol)

\* check_completion() on an engine with self.costol: with costol set, the last
\* test compares the name curcos, which nothing binds
check_completion_costol(e) ==
    IF ~e.costol.enabled
    THEN [e EXCEPT !.called = TRUE, !.terminate = check_completion(e), !.raised = "none"]
    ELSE [e EXCEPT !.called = TRUE, !.terminate = FALSE, !.raised = "NameError"]

CcCheckCompletion ==
    /\ \E p \in CosVals, error \in CosErrors, last \in CosErrors, cosine \in Cosines :
          cc' = check_completion_costol([cc EXCEPT !.param_vals = p, !.error = error,
                                                   !._last_error = last,
                                                   !.model_cosine = cosine])
    /\ UNCHANGED NotCC

\* C20: with costol set, check_completion reports termination also when the
\* model cosine is above costol; in every other respect, and with costol None,
\* it reports what the parameter, error and fractional-error tests give.
C20_CostolTerminates ==
    cc.called =>
        /\ cc.raised = "none"
        /\ cc.terminate = (\/ check_completion(cc)
                           \/ cc.costol.enabled /\ cc.model_cosine > cc.costol.value)

\* the same with costol None
C20_CostolDisabled ==
    ~cc.costol.enabled => C20_CostolTerminates

-----------------------------------------------------------------------------
(* get_num_px_jtj (src/peri/opt/optimize.py)                                *)
(* max_mem is a whole number of bytes, decimate a whole number.             *)

\* the most parameters of the fit
MaxNparams == 3

\* max_mem, min_redundant, s.residuals.size and decimate
PxMems == {0, 8, 50, 100, 400}
PxRedundants == {0, 1, 2, 20}
PxSizes == {0, 5, 10, 100}
PxDecimates == {1, 2, 3}

NewPxJtj(nparams, max_mem, min_redundant, size, decimate) ==
    [called |-> FALSE, nparams |-> nparams, max_mem |-> max_mem,
     min_redundant |-> min_redundant, size |-> size, decimate |-> decimate,
     raised |-> "none", num_px |-> 0]

NoPxJtj == NewPxJtj(1, 0, 0, 0, 1)

InitPJ == pj = NoPxJtj

\* get_num_px_jtj without its test of px_red against px_mem
get_num_px_jtj_noraise(c) ==
    LET px_mem == c.max_mem \div (8 * c.nparams)
        px_red == c.min_redundant * c.nparams
        px_dec == c.size \div c.decimate
    IN [c EXCEPT !.called = TRUE, !.num_px = clip(px_dec, px_red, px_mem)]

\* get_num_px_jtj(s, nparams, decimate, max_mem, min_redundant)
get_num_px_jtj(c) ==
    LET px_mem == c.max_mem \div (8 * c.nparams)
        px_red == c.min_redundant * c.nparams
        px_dec == c.size \div c.decimate
    IN IF px_red > px_mem
       THEN [c EXCEPT !.called = TRUE, !.raised = "RuntimeError"]
       ELSE [c EXCEPT !.called = TRUE, !.num_px = clip(px_dec, px_red, px_mem)]

PjGetNumPx ==
    /\ \E nparams \in 1..MaxNparams, max_mem \in PxMems, min_redundant \in PxRedundants,
          size \in PxSizes, decimate \in PxDecimates :
          pj' = get_num_px_jtj(NewPxJtj(nparams, max_mem, min_redundant, size, decimate))
    /\ UNCHANGED NotPJ

\* the most pixels whose row of J, at 8 bytes for each parameter, fits max_mem
MemPixels == CHOOSE h \in 0..pj.max_mem :
                 8 * pj.nparams * h <= pj.max_mem /\ 8 * pj.nparams * (h + 1) > pj.max_mem

\* the whole pixels left by the decimation
DecPixels == CHOOSE q \in 0..pj.size :
                 q * pj.decimate <= pj.size /\ (q + 1) * pj.decimate > pj.size

\* C21: get_num_px_jtj raises RuntimeError exactly when min_redundant * nparams
\* is above floor(max_mem / 8 / nparams); otherwise it returns the number of
\* pixels over decimate, raised to min_redundant * nparams when below it and
\* lowered to floor(max_mem / 8 / nparams) when above it.
C21_NumPxClipped ==
    pj.called =>
        LET lo == pj.min_redundant * pj.nparams
        IN /\ (pj.raised = "RuntimeError") = (lo > MemPixels)
           /\ pj.raised \in {"none", "RuntimeError"}
           /\ pj.raised = "none" =>
                 /\ lo <= pj.num_px /\ pj.num_px <= MemPixels
                 /\ DecPixels < lo => pj.num_px = lo
                 /\ DecPixels > MemPixels => pj.num_px = MemPixels
                 /\ (lo <= DecPixels /\ DecPixels <= MemPixels) => pj.num_px = DecPixels

\* a call whose decimated pixel count, 2, was raised to the lower bound, 4
C21_Witness ==
    /\ pj.called /\ pj.raised = "none"
    /\ pj.nparams = 2 /\ pj.min_redundant = 2 /\ pj.max_mem = 100
    /\ pj.size = 5 /\ pj.decimate = 2 /\ pj.num_px = 4

-----------------------------------------------------------------------------
(* The parameter names of a PlatonicSpheresCollection (objs.py)             *)
(* A string is the sequence of its characters.  Of the collection only the  *)
(* number of particles matters to the names.                                *)

\* the most particles, and the calls made on one collection
MaxNames == 3
MaxNameOps == 3

\* param_prefix: 'sph' by default, any string
Prefixes == {<<"s", "p", "h">>, <<"o">>, <<"s", "-", "b">>}

\* the coordinate tags of setup_variables, in its order
Coords == <<"x", "y", "z", "a">>

Digits == <<"0", "1", "2", "3", "4", "5", "6", "7", "8", "9">>

\* str(ind) and int(g) of an index below ten
str(ind) == <<Digits[ind + 1]>>
int(g) == CHOOSE ind \in 0..9 : str(ind) = g

\* '-'.join(parts)
RECURSIVE join(_)
join(parts) ==
    IF Len(parts) = 1 THEN parts[1]
    ELSE parts[1] \o <<"-">> \o join(Tail(parts))

\* param.split('-')
RECURSIVE split(_)
split(param) ==
    IF \A k \in 1..Len(param) : param[k] # "-" THEN <<param>>
    ELSE LET k == CHOOSE k \in 1..Len(param) :
                      param[k] = "-" /\ \A j \in 1..(k - 1) : param[j] # "-"
         IN <<SubSeq(param, 1, k - 1)>> \o split(SubSeq(param, k + 1, Len(param)))

\* the name of the zscale parameter in setup_variables
ZscaleName == <<"z", "s", "c", "a", "l", "e">>

\* _i2p(ind, coord)
_i2p(prefix, ind, coord) == join(<<prefix, str(ind), <<coord>>>>)

\* _p2i(param): (type, index), or None when the name has neither one part nor
\* three; the index None is -1 here
_p2i(param) ==
    LET g == split(param)
    IN IF Len(g) = 1 THEN [typ |-> <<"zscale">>, ind |-> -1]
       ELSE IF Len(g) = 3 /\ g[2] \in {str(ind) : ind \in 0..9}
       THEN [typ |-> g[3], ind |-> int(g[2])]
       ELSE [typ |-> <<"None">>, ind |-> -1]

\* setup_variables with the zscale parameter named by the prefix
setup_variables_prefix(prefix, N) ==
    [k \in 1..(4 * N) |-> _i2p(prefix, (k - 1) \div 4, Coords[((k - 1) % 4) + 1])]
        \o <<prefix>>

\* setup_variables() of a collection of N particles
setup_variables(prefix, N) ==
    [k \in 1..(4 * N) |-> _i2p(prefix, (k - 1) \div 4, Coords[((k - 1) % 4) + 1])]
        \o <<ZscaleName>>

NewNames(prefix, N) ==
    [param_prefix |-> prefix, N |-> N, _params |-> setup_variables(prefix, N),
     ops |-> 0, last |-> "init", parsed |-> 0]

NoNames == NewNames(<<"s", "p", "h">>, 0)

InitNM == \E prefix \in Prefixes, N \in 0..MaxNames : nm = NewNames(prefix, N)

\* add_particle(pos, rad), as far as the names go
NmAddParticle ==
    /\ nm.ops < MaxNameOps
    /\ nm.N < MaxNames
    /\ nm' = [nm EXCEPT !.N = @ + 1,
                        !._params = setup_variables(nm.param_prefix, nm.N + 1),
                        !.ops = @ + 1, !.last = "add", !.parsed = 0]
    /\ UNCHANGED NotNM

\* remove_particle(ind), as far as the names go: nothing on an empty collection
NmRemoveParticle ==
    /\ nm.ops < MaxNameOps
    /\ nm' = IF nm.N = 0
             THEN [nm EXCEPT !.ops = @ + 1, !.last = "remove", !.parsed = 0]
             ELSE [nm EXCEPT !.N = @ - 1,
                             !._params = setup_variables(nm.param_prefix, nm.N - 1),
                             !.ops = @ + 1, !.last = "remove", !.parsed = 0]
    /\ UNCHANGED NotNM

\* _p2i on the k-th name of the list, as _update_type calls it
NmP2i ==
    /\ \E k \in 1..Len(nm._params) : nm' = [nm EXCEPT !.parsed = k]
    /\ UNCHANGED NotNM

\* the name built for particle ind and tag c is in the list at its place
NamesOfParticles ==
    /\ Len(nm._params) = 4 * nm.N + 1
    /\ \A ind \in 0..(nm.N - 1) : \A c \in 1..4 :
          nm._params[4 * ind + c] = nm.param_prefix \o <<"-">> \o str(ind) \o <<"-", Coords[c]>>

\* every particle name of the list parses to the tag and index it was built from
RoundTrip ==
    \A ind \in 0..(nm.N - 1) : \A c \in 1..4 :
        _p2i(nm._params[4 * ind + c]) = [typ |-> <<Coords[c]>>, ind |-> ind]

\* C22 as stated: after any add_particle / remove_particle calls the list is
\* the names prefix-i-c for i in 0..N-1 and c in x, y, z, a, then one zscale
\* parameter named by the bare prefix; and every particle name parses to the
\* tag and index it was built from.
C22_ParamNames ==
    /\ NamesOfParticles
    /\ nm._params[4 * nm.N + 1] = nm.param_prefix
    /\ RoundTrip

\* the prefix has no separator in it
PlainPrefix == \A k \in 1..Len(nm.param_prefix) : nm.param_prefix[k] # "-"

\* C22, amended: the list is the names prefix-i-c, then one parameter named
\* 'zscale', which parses as the zscale; and for a prefix without the
\* separator every particle name parses to the tag and index it was built from.
C22_ParamNamesZscale ==
    /\ NamesOfParticles
    /\ nm._params[4 * nm.N + 1] = ZscaleName
    /\ _p2i(nm._params[4 * nm.N + 1]) = [typ |-> <<"zscale">>, ind |-> -1]
    /\ PlainPrefix => RoundTrip

\* two particles after an add and a remove, and the name of the second one's
\* radius was parsed
C22_Witness ==
    /\ nm.N = 2 /\ nm.ops = 3 /\ nm.last = "remove" /\ PlainPrefix
    /\ nm.parsed = 8 /\ _p2i(nm._params[8]) = [typ |-> <<"a">>, ind |-> 1]

-----------------------------------------------------------------------------
(* The J updates of LMEngine.do_run_1 under update_J_frequency              *)
(* Which update of J each pass chooses depends on the counters alone; the   *)
(* outcome of the step (accepted or not) is an input.                       *)

MaxPasses == 4
\* update_J_frequency and broyden_update_frequency as the caller may set them
JFrequencies == {1, 2, 3}
BroydenFrequencies == {1, 2}

\* LMEngine.__init__: the counters, J and the attributes update_Broyden_J reads;
\* log is the model's record of the passes since construction or reset()
NewJU(update_J_frequency, broyden_update_frequency) ==
    [update_J_frequency |-> update_J_frequency,
     broyden_update_frequency |-> broyden_update_frequency,
     _J_update_counter |-> update_J_frequency, _fresh_JTJ |-> FALSE,
     _inner_run_counter |-> 0, J |-> "none", _last_residuals |-> FALSE,
     log |-> <<>>, raised |-> "none"]

NoJU == NewJU(1, 1)

InitJU == \E f \in JFrequencies, b \in BroydenFrequencies : ju = NewJU(f, b)

\* the head of _run1 and of _run2: check_update_J / update_J, else
\* check_Broyden_J / update_Broyden_J, which reads self._last_residuals
\* (eig_update is off); run and good_step go to the log
JuRefresh(j, run, good_step) ==
    LET cnt == j._J_update_counter + 1
        full == cnt >= j.update_J_frequency /\ ~j._fresh_JTJ
        broyden == /\ ~j._fresh_JTJ
                   /\ (j._inner_run_counter % j.broyden_update_frequency) = 0
        Logged(kind) == Append(j.log, [run |-> run, J |-> kind, good_step |-> good_step])
    IN IF full
       THEN [j EXCEPT !._J_update_counter = 0, !._fresh_JTJ = TRUE, !.J = "full",
                      !.log = Logged("full")]
       ELSE IF ~broyden
       THEN [j EXCEPT !._J_update_counter = cnt, !.log = Logged("none")]
       ELSE IF j._last_residuals
       THEN [j EXCEPT !._J_update_counter = cnt, !.J = "broyden",
                      !.log = Logged("broyden")]
       ELSE [j EXCEPT !._J_update_counter = cnt, !.raised = "AttributeError"]

\* one pass of the while loop of do_run_1: _run1, then the two counters
JuRun1 ==
    /\ UNCHANGED NotJU
    /\ ju.raised = "none"
    /\ Len(ju.log) < MaxPasses
    /\ \E good_step \in BOOLEAN :
         LET j1 == JuRefresh(ju, "run1", good_step)
         IN ju' = IF j1.raised # "none" THEN j1
                  ELSE [j1 EXCEPT !._fresh_JTJ = IF good_step THEN FALSE ELSE @,
                                  !._inner_run_counter = @ + 1]

\* one pass of the while loop of do_run_2: _run2, whose good step stores
\* _last_residuals and starts do_internal_run(initial_count=1), which leaves
\* the inner counter at n
JuRun2 ==
    /\ UNCHANGED NotJU
    /\ ju.raised = "none"
    /\ Len(ju.log) < MaxPasses
    /\ \E good_step \in BOOLEAN, n \in 1..run_length :
         LET j1 == JuRefresh(ju, "run2", good_step)
         IN ju' = IF j1.raised # "none" \/ ~good_step THEN j1
                  ELSE [j1 EXCEPT !._fresh_JTJ = FALSE, !._last_residuals = TRUE,
                                  !._inner_run_counter = n]

\* reset(): the counters start again; J and _last_residuals stay
JuReset ==
    /\ UNCHANGED NotJU
    /\ ju.raised = "none"
    /\ ju.log # <<>>
    /\ ju' = [ju EXCEPT !._J_update_counter = ju.update_J_frequency,
                        !._fresh_JTJ = FALSE, !._inner_run_counter = 0,
                        !.log = <<>>]

\* passes of do_run_1 only, every step accepted, with update_J_frequency=2 and
\* a Broyden frequency of 1
JuAlternating ==
    /\ ju.update_J_frequency = 2 /\ ju.broyden_update_frequency = 1
    /\ \A i \in 1..Len(ju.log) : ju.log[i].run = "run1" /\ ju.log[i].good_step

\* C24: do_run_1 with update_J_frequency=2 and a Broyden frequency of 1
\* alternates while the steps are accepted: the odd passes recompute the full
\* J, the even passes update J by Broyden's formula, and no pass raises.
C24_Alternates ==
    JuAlternating =>
        /\ ju.raised = "none"
        /\ \A i \in 1..Len(ju.log) :
              ju.log[i].J = IF i % 2 = 1 THEN "full" ELSE "broyden"

\* the same on an engine that an accepted step of do_run_2 has left with
\* _last_residuals
C24_AlternatesAfterRun2 ==
    ju._last_residuals => C24_Alternates

-----------------------------------------------------------------------------
(* LMEngine.do_run_3 on an engine of n parameters: its two loops            *)
(* _run2 and do_internal_run are seen from outside, as in the section on    *)
(* do_stuckJ_run; check_completion is an input wherever it is evaluated.    *)

\* the value that stops the model's count of _num_iter
MaxNumIter == 6

\* max_bad = self.param_vals.size / 4 if max_bad is None
max_bad_default(n) == n \div 4

\* the locals of do_run_3 and the engine's _has_run and _num_iter;
\* stuck_runs is the model's count of the calls of do_stuckJ_run
NewRun3(n, _num_iter) ==
    [n |-> n, pc |-> "chk", _has_run |-> _num_iter > 0, _num_iter |-> _num_iter,
     n_bad |-> 0, max_bad |-> max_bad_default(n), stuck_runs |-> 0]

NoRun3Loop == NewRun3(2, 0)

InitRT ==
    \E n \in 2..MaxParams, _num_iter \in 0..max_iter :
       rt = NewRun3(n, _num_iter) /\ sk = NewStuckJ(n)

\* what check_terminate() may return: False before any run, True from
\* max_iter on, and else what check_completion() gives
R3Terminates(r) ==
    IF ~r._has_run THEN {FALSE}
    ELSE IF r._num_iter >= max_iter THEN {TRUE}
    ELSE BOOLEAN

\* any outcome, whatever check_terminate() returns
R3Outcomes_any(r) == RunOutcomes

\* what a do_internal_run may do: its loop is not entered when
\* check_terminate() holds
R3Outcomes(r) == IF FALSE \in R3Terminates(r) THEN RunOutcomes ELSE {"skipped"}

\* the head of the inner loop of do_run_3: the next do_stuckJ_run, or back to
\* the outer loop
R3Inner(r) ==
    IF r.n_bad < r.max_bad
    THEN [r EXCEPT !.pc = "stuck", !.stuck_runs = @ + 1]
    ELSE [r EXCEPT !.pc = "chk"]

\* the head of the outer loop: stop, or _run2 and the count of it
RtCheck ==
    /\ UNCHANGED NotRT
    /\ rt.pc = "chk"
    /\ rt._num_iter < MaxNumIter
    /\ \E terminate \in R3Terminates(rt) :
          rt' = IF terminate THEN [rt EXCEPT !.pc = "done"]
                ELSE R3Inner([rt EXCEPT !._has_run = TRUE, !._num_iter = @ + 1])

\* the steps of do_stuckJ_run inside the inner loop
RtStuckStart == rt.pc = "stuck" /\ StStart
RtStuckBlock == rt.pc = "stuck" /\ StBlockStep(R3Outcomes(rt)) /\ UNCHANGED NotSK
RtStuckAfter == rt.pc = "stuck" /\ StAfterStep(R3Outcomes(rt)) /\ UNCHANGED NotSK
RtStuckRetry ==
    rt.pc = "stuck" /\ StRetryStep(R3Terminates(rt), R3Outcomes(rt)) /\ UNCHANGED NotSK

\* do_stuckJ_run returns bad_params.sum(); the count of it
RtStuckReturn ==
    /\ UNCHANGED NotRTSK
    /\ rt.pc = "stuck"
    /\ sk.pc = "done"
    /\ rt._num_iter < MaxNumIter
    /\ rt' = R3Inner([rt EXCEPT !.n_bad = Cardinality(sk.bad_params),
                                !._num_iter = @ + 1])
    /\ sk' = NewStuckJ(rt.n)

\* C25: do_run_3 with the default max_bad and stop_halving = 1 returns, on an
\* engine of two or more parameters, whatever the steps of a deterministic
\* objective do.
C25_Run3Terminates == <>(rt.pc = "done")

\* the stuck-J runs take the count of iterations past max_iter by one at most
C25_IterBound ==
    rt._num_iter <= max_iter + 1

\* do_run_3 has returned after two calls of do_stuckJ_run, past max_iter
C25_Witness ==
    /\ rt.pc = "done"
    /\ rt.stuck_runs >= 2
    /\ rt._num_iter > max_iter

-----------------------------------------------------------------------------
(* Where the model is evaluated: the helper evaluations of an engine        *)
(* One fitted parameter (a radius, for LMParticles). update_function leaves *)
(* the model (or the State) at model_vals; the engine holds param_vals. The *)
(* steps and whether they are accepted are inputs.                          *)

MaxEvalPasses == 2
\* dh = 0.1 of calc_accel_correction, as a divisor
accel_dh_inv == 10
\* dl of LMAugmentedState.calc_J and eig_dl, in the model's unit
eval_dl == 1

EvAdapters == {"LMFunction", "LMGlobals", "LMParticles", "LMAugmentedState"}
EvDeltas == {-30, 10}

\* an engine after __init__ / _set_err_paramvals; read_off tells that some
\* calc_grad has read residuals of a model not at param_vals
NewEval(adapter, use_accel) ==
    [adapter |-> adapter, use_accel |-> use_accel, param_vals |-> 10,
     model_vals |-> 10, read_off |-> FALSE, returned |-> FALSE, passes |-> 0]

NoEval == NewEval("LMFunction", FALSE)

InitEV == \E adapter \in EvAdapters, use_accel \in BOOLEAN : ev = NewEval(adapter, use_accel)

\* what update_function(values) does to the array it is given: LMParticles
\* clips it in place
EvClipped(e, values) ==
    IF e.adapter = "LMParticles" THEN clip(values, _MINRAD, _MAXRAD) ELSE values

\* update_function(values) on a temporary array (param_vals + delta, a copy)
EvUpdateFunction(e, values) == [e EXCEPT !.model_vals = EvClipped(e, values)]

\* update_function(self.param_vals): the clipping writes into param_vals
EvUpdateAtParamVals(e) ==
    [e EXCEPT !.model_vals = EvClipped(e, e.param_vals),
              !.param_vals = EvClipped(e, e.param_vals)]

\* calc_grad(): the residuals are those of the model where it stands
EvCalcGrad(e) == [e EXCEPT !.read_off = @ \/ e.model_vals # e.param_vals]

\* calc_J(): LMAugmentedState moves the augmented parameter by dl for the
\* finite difference; the other adapters leave the model where it is
EvCalcJ(e) ==
    IF e.adapter = "LMAugmentedState"
    THEN [e EXCEPT !.model_vals = @ + eval_dl]
    ELSE e

\* calc_accel_correction(damped_JTJ, delta0): three evaluations
EvCalcAccelCorrection(e, delta0) ==
    LET e1 == EvUpdateAtParamVals(e)
        e2 == EvUpdateFunction(e1, e1.param_vals + delta0 \div accel_dh_inv)
    IN EvUpdateFunction(e2, e2.param_vals - delta0 \div accel_dh_inv)

\* find_LM_updates(grad): the step delta0 is an input
EvFindLMUpdates(e, delta0) ==
    IF e.use_accel THEN EvCalcAccelCorrection(e, delta0) ELSE e

\* update_param_vals(delta_vals, incremental=True)
EvUpdateParamVals(e, delta_vals) == [e EXCEPT !.param_vals = @ + delta_vals]

\* the head of _run1 and _run2: update_J when it is due
EvRefreshJ(e, due) == IF due THEN EvCalcJ(e) ELSE e

\* the parameters put back with a copy of param_vals
EvUpdateAtCopy(e) == EvUpdateFunction(e, e.param_vals)

\* a retry loop of _run1 and _run2 from its gradient on, one retry shown:
\* a good step, or the parameters put back, in _run1 through param_vals
\* itself (in_place) and in _run2 through a copy
EvRetry(e, delta_vals, good_step, in_place) ==
    LET e1 == EvCalcGrad(e)
        e2 == EvFindLMUpdates(e1, delta_vals)
        e3 == EvUpdateFunction(e2, e2.param_vals + delta_vals)
    IN IF good_step THEN EvUpdateParamVals(e3, delta_vals)
       ELSE IF in_place THEN EvUpdateAtParamVals(e3)
       ELSE EvUpdateAtCopy(e3)

\* _run1
Ev_run1(e, due, delta_vals, good_step, retry_good) ==
    LET e1 == EvCalcGrad(EvRefreshJ(e, due))
        e2 == EvFindLMUpdates(e1, delta_vals)
        e3 == EvUpdateFunction(e2, e2.param_vals + delta_vals)
    IN IF good_step THEN EvUpdateParamVals(e3, delta_vals)
       ELSE EvRetry(EvUpdateAtParamVals(e3), delta_vals, retry_good, TRUE)

\* one pass of do_internal_run
Ev_internal(e, delta_vals, good_step) ==
    LET e1 == EvCalcGrad(e)
        e2 == EvFindLMUpdates(e1, delta_vals)
        e3 == EvUpdateFunction(e2, e2.param_vals + delta_vals)
    IN IF good_step THEN EvUpdateParamVals(e3, delta_vals) ELSE EvUpdateAtParamVals(e3)

\* _run2 with run_length = 2: the two trial steps, the best of them or the
\* retries, and after a good step one pass of do_internal_run
Ev_run2(e, due, d1, d2, best_step, retry_good, d3, inner_good) ==
    LET e1 == EvCalcGrad(EvRefreshJ(e, due))
        e2 == EvFindLMUpdates(e1, d1)
        e3 == EvCalcGrad(e2)
        e4 == EvFindLMUpdates(e3, d2)
        e5 == EvUpdateFunction(e4, e4.param_vals + d1)
        e6 == EvUpdateFunction(e5, e5.param_vals + d2)
        again == EvUpdateFunction(e6, e6.param_vals + d1)
    IN CASE best_step = 0 -> EvRetry(EvUpdateAtCopy(e6), d1, retry_good, FALSE)
         [] best_step = 1 -> Ev_internal(EvUpdateParamVals(again, d1), d3, inner_good)
         [] OTHER -> Ev_internal(EvUpdateParamVals(e6, d2), d3, inner_good)

\* update_select_J(blk): the model is put at a copy of param_vals, moved for
\* the finite difference, and put back
Ev_update_select_J(e) ==
    LET p0 == e.param_vals
        e1 == EvUpdateFunction(e, p0)
        e2 == EvUpdateFunction(e1, p0 + eval_dl)
    IN EvUpdateFunction(e2, p0)

\* update_eig_J(): the model is moved along a direction and put back
Ev_update_eig_J(e) ==
    EvUpdateAtParamVals(EvUpdateFunction(e, e.param_vals + eval_dl))

EvReturned(e) == [e EXCEPT !.returned = TRUE, !.passes = @ + 1]

EvRun1 ==
    /\ UNCHANGED NotEV
    /\ ev.passes < MaxEvalPasses
    /\ \E due \in BOOLEAN, delta_vals \in EvDeltas, good_step \in BOOLEAN,
          retry_good \in BOOLEAN :
          ev' = EvReturned(Ev_run1(ev, due, delta_vals, good_step, retry_good))

EvRun2 ==
    /\ UNCHANGED NotEV
    /\ ev.passes < MaxEvalPasses
    /\ \E due \in BOOLEAN, d1 \in EvDeltas, d2 \in EvDeltas, best_step \in 0..2,
          retry_good \in BOOLEAN, d3 \in EvDeltas, inner_good \in BOOLEAN :
          ev' = EvReturned(Ev_run2(ev, due, d1, d2, best_step, retry_good, d3, inner_good))

EvInternalRun ==
    /\ UNCHANGED NotEV
    /\ ev.passes < MaxEvalPasses
    /\ \E delta_vals \in EvDeltas, good_step \in BOOLEAN :
          ev' = EvReturned(Ev_internal(ev, delta_vals, good_step))

EvUpdateSelectJ ==
    /\ UNCHANGED NotEV
    /\ ev.passes < MaxEvalPasses
    /\ ev' = EvReturned(Ev_update_select_J(ev))

EvUpdateEigJ ==
    /\ UNCHANGED NotEV
    /\ ev.passes < MaxEvalPasses
    /\ ev' = EvReturned(Ev_update_eig_J(ev))

\* C27: every calc_grad reads the residuals of the model at param_vals, and
\* when a run step or a J helper returns the model stands at param_vals.
C27_ModelAtParamVals ==
    /\ ~ev.read_off
    /\ ev.returned => ev.model_vals = ev.param_vals

\* the same for the adapters that neither clip nor move the model in calc_J,
\* without the acceleration correction
C27_PlainAdapters ==
    (ev.adapter \in {"LMFunction", "LMGlobals"} /\ ~ev.use_accel) => C27_ModelAtParamVals

-----------------------------------------------------------------------------
(* The shape of LMEngine.damping                                            *)
(* An array is seen by its number of axes and its size; param_vals is a     *)
(* vector of n entries.                                                     *)

MaxDampCalls == 3

\* the damping or new_damping a caller may pass: None, a number, or a list
\* of k numbers
NewDampings ==
    {[given |-> FALSE, ndim |-> 0, size |-> 0], [given |-> TRUE, ndim |-> 0, size |-> 1]}
    \cup {[given |-> TRUE, ndim |-> 1, size |-> k] : k \in 1..MaxParams}

\* np.array(x): a number gives an array of no axis and size 1
np_array(x) == [ndim |-> x.ndim, size |-> x.size]

\* __init__: np.ones(param_vals.size), then damping[:] = np.array(damping),
\* which numpy broadcasts from size 1 or n and refuses otherwise
NewDamp(n, damping) ==
    [n |-> n, damping |-> [ndim |-> 1, size |-> n],
     raised |-> IF damping.size \in {1, n} THEN "none" ELSE "ValueError",
     last |-> "init", arg |-> damping, calls |-> 0]

NoDamp == NewDamp(1, [given |-> TRUE, ndim |-> 0, size |-> 1])

InitDM ==
    \E n \in 1..MaxParams, damping \in NewDampings :
       /\ damping.given
       /\ dm = NewDamp(n, damping)
       /\ dm.raised = "none"

\* reset(new_damping): the counters, and damping = np.array(new_damping)
\* when new_damping is given
reset(e, new_damping) ==
    [e EXCEPT !.damping = IF new_damping.given THEN np_array(new_damping) ELSE @,
              !.arg = new_damping]

\* LMGlobals.set_params(new_param_names, new_damping): the new names, their
\* values read by _set_err_paramvals, and reset
set_params(e, n, new_damping) == reset([e EXCEPT !.n = n], new_damping)

DmReset ==
    /\ UNCHANGED NotDM
    /\ dm.calls < MaxDampCalls
    /\ \E new_damping \in NewDampings :
          dm' = [reset(dm, new_damping) EXCEPT !.last = "reset", !.calls = @ + 1]

DmSetParams ==
    /\ UNCHANGED NotDM
    /\ dm.calls < MaxDampCalls
    /\ \E n \in 1..MaxParams, new_damping \in NewDampings :
          dm' = [set_params(dm, n, new_damping) EXCEPT !.last = "set_params",
                                                       !.calls = @ + 1]

\* C28: damping is a vector with one entry per fitted parameter after
\* construction, after reset(new_damping) and after set_params.
C28_DampingPerParameter ==
    dm.damping.ndim = 1 /\ dm.damping.size = dm.n

\* the same when the last call was given a list of one damping per parameter,
\* and after construction
C28_DampingListGiven ==
    (dm.last = "init" \/ (dm.arg.given /\ dm.arg.ndim = 1 /\ dm.arg.size = dm.n))
        => C28_DampingPerParameter

-----------------------------------------------------------------------------
(* PSF2D (src/cbamf/comp/psf2d.py): the shapes of its arrays                *)
(* Shapes are in the order z, x, y. Only the shapes are modelled: the       *)
(* values of the kernel do not decide whether construction succeeds.        *)

MaxPsfDepth == 4
\* the transverse sizes of the image and the widths guess_psf_width returns
\* (int(np.round(...))*2+1)
PsfSides == {2, 3, 5, 6}
PsfWidths == {2 * k + 1 : k \in 1..2}

NewPSF(shape, wid) ==
    [shape |-> shape, wid |-> wid, constructed |-> FALSE,
     _support_size |-> <<0, 0, 0>>, _rpsf |-> <<0, 0, 0>>, _kpsf |-> <<0, 0, 0>>,
     raised |-> "none"]

NoPSF == NewPSF(<<1, 3, 3>>, 3)

InitPF ==
    \E z \in 1..MaxPsfDepth, x \in PsfSides, y \in PsfSides, wid \in PsfWidths :
       pf = NewPSF(<<z, x, y>>, wid)

\* _calc_support_size: np.array([self.shape[0], wid, wid])
_calc_support_size(p) == <<p.shape[1], p.wid, p.wid>>

\* _update_rvecs: zr, xr, yr = (support_size - 1)/2 in integers, and the
\* number of points of np.arange(-r, r+.1, 1) on each axis
_update_rvecs(support) == [a \in 1..3 |-> 2 * ((support[a] - 1) \div 2) + 1]

\* update(params): the support size, the points, and _rpsf on those points
PsfUpdated(p) ==
    LET support == _calc_support_size(p)
    IN [p EXCEPT !._support_size = support, !._rpsf = _update_rvecs(support)]

\* the length of a[:k] and of a[-k:] (k > 0) on an axis of n entries
SliceLen(n, k) == IF k < n THEN k ELSE n

\* numpy assigns a source axis to a target axis of the same length, or
\* broadcasts one of length 1
Assignable(target, src) == src = target \/ src = 1

\* _make_kpsf(tile_shape): the exception it raises, or "none"
MakeKpsfRaises(p, tile_shape) ==
    LET sz == [a \in 1..3 |-> (p._rpsf[a] - 1) \div 2]
        \* the four corners of bigp that receive the four quadrants of curp
        fits == /\ Assignable(SliceLen(tile_shape[2], sz[2] + 1), sz[2] + 1)
                /\ Assignable(SliceLen(tile_shape[3], sz[3] + 1), sz[3] + 1)
                /\ Assignable(SliceLen(tile_shape[2], sz[2]), sz[2])
                /\ Assignable(SliceLen(tile_shape[3], sz[3]), sz[3])
    IN IF p._rpsf[2] % 2 = 0 \/ p._rpsf[3] % 2 = 0 THEN "ValueError"
       ELSE IF ~fits THEN "ValueError"
       ELSE IF p.shape[1] > p._rpsf[1] THEN "IndexError"
       ELSE "none"

\* _make_kpsf(tile_shape)
_make_kpsf(p, tile_shape) ==
    LET raises == MakeKpsfRaises(p, tile_shape)
    IN IF raises # "none" THEN [p EXCEPT !.raised = raises]
       ELSE [p EXCEPT !._kpsf = <<p.shape[1], tile_shape[2], tile_shape[3]>>]

\* PSF2D.__init__: update(params), then set_tile(Tile(shape))
PfConstruct ==
    /\ UNCHANGED NotPF
    /\ ~pf.constructed
    /\ pf' = [_make_kpsf(PsfUpdated(pf), pf.shape) EXCEPT !.constructed = TRUE]

\* C29: for every image shape (z, x, y), of odd or even depth, construction
\* gives a kernel of shape[0] slices and odd transverse size, and _make_kpsf
\* builds one slice per image slice without raising.
C29_KernelPerSlice ==
    pf.constructed =>
        /\ pf._rpsf[1] = pf.shape[1]
        /\ pf._rpsf[2] % 2 = 1 /\ pf._rpsf[3] % 2 = 1
        /\ pf.raised = "none"
        /\ pf._kpsf[1] = pf.shape[1]

\* the same for the images that are no smaller than the kernel
C29_LargeImage ==
    (pf.shape[2] >= pf.wid /\ pf.shape[3] >= pf.wid) => C29_KernelPerSlice

\* the same for an image of odd depth that is no smaller than the kernel
C29_OddDepth ==
    (/\ pf.shape[1] % 2 = 1
     /\ pf.shape[2] >= pf.wid /\ pf.shape[3] >= pf.wid) => C29_KernelPerSlice

-----------------------------------------------------------------------------
(* __getstate__ / __setstate__ of PlatonicSpheresCollection and Slab        *)
(* An object is its __dict__: a function from the names of its attributes   *)
(* to their values. The slab has angles (0, 0), so its normal is the z axis.*)

\* zpos of a slab, in voxels
SlabZs == {2, 5, 8}

\* the coordinate vectors of the shape, as far as their extent goes
PkCoords == FieldShape

\* 1/(1 + exp(7 p)), kept by its rank: above one half, one half, below one
\* half; it is positive everywhere
slab_level(p) == IF p < 0 THEN 3 ELSE IF p = 0 THEN 2 ELSE 1

\* cdd(d, keys): d without those keys
cdd(d, keys) == [k \in (DOMAIN d) \ keys |-> d[k]]

\* dict.update: the entries of idict over those of d
dict_update(d, idict) ==
    [k \in (DOMAIN d) \cup (DOMAIN idict) |-> IF k \in DOMAIN idict THEN idict[k] ELSE d[k]]

\* an object's __dict__ with attribute k set to v
SetAttr(d, k, v) == [j \in (DOMAIN d) \cup {k} |-> IF j = k THEN v ELSE d[j]]

\* PlatonicSpheresCollection.initialize(): rvecs, and particles drawn from
\* pos and rad
SphInitialize(d) ==
    SetAttr(SetAttr(d, "rvecs", PkCoords), "particles",
            NewCollection(d.pos, d.rad, d.zscale, d.method, FALSE, FALSE).particles)

\* PlatonicSpheresCollection.__init__: setup_variables, then initialize
NewSpheres(pos, rad, zscale, method, prefix) ==
    SphInitialize([pos |-> pos, rad |-> rad, zscale |-> zscale, method |-> method,
                   param_prefix |-> prefix,
                   _params |-> setup_variables(prefix, Len(pos))])

\* Slab._setup(): rvecs, and an image of zeros
Slab_setup(d) ==
    SetAttr(SetAttr(d, "rvecs", PkCoords), "image", [v \in Voxels |-> 0])

\* Slab._draw_slab(): the sigmoid of the distance to the plane at zpos
Slab_draw_slab(d) ==
    SetAttr(d, "image", [v \in Voxels |-> slab_level(v - (d.param_dict + inner_l))])

\* Slab.__init__: the names and values kept by Component, then initialize()
NewSlab(zpos) ==
    Slab_draw_slab(Slab_setup([_params |-> <<"slab-zpos", "slab-theta", "slab-phi">>,
                               param_dict |-> zpos]))

\* __getstate__ of the two classes
getstate(kind, d) ==
    IF kind = "spheres" THEN cdd(d, {"rvecs", "particles", "_params"})
    ELSE cdd(d, {"rvecs", "image"})

\* __setstate__ on the new, empty object that unpickling makes
setstate(kind, idict) ==
    LET d == dict_update(<<>>, idict)
    IN IF kind = "spheres" THEN SphInitialize(d) ELSE Slab_setup(d)

NewPickle(kind, d) ==
    [kind |-> kind, pc |-> "live", original |-> d, state |-> <<>>, reloaded |-> <<>>]

NoPickle == NewPickle("slab", NewSlab(2))

InitPK ==
    \/ \E prs \in Particles0, zscale \in ZVals, method \in Methods :
          pk = NewPickle("spheres",
                         NewSpheres([i \in 1..Len(prs) |-> prs[i][1]],
                                    [i \in 1..Len(prs) |-> prs[i][2]],
                                    zscale, method, <<"s", "p", "h">>))
    \/ \E zpos \in SlabZs : pk = NewPickle("slab", NewSlab(zpos))

PkGetstate ==
    /\ UNCHANGED NotPK
    /\ pk.pc = "live"
    /\ pk' = [pk EXCEPT !.pc = "dumped", !.state = getstate(pk.kind, pk.original)]

PkSetstate ==
    /\ UNCHANGED NotPK
    /\ pk.pc = "dumped"
    /\ pk' = [pk EXCEPT !.pc = "loaded", !.reloaded = setstate(pk.kind, pk.state)]

\* the params property: the names it returns, or what it raises on an object
\* without _params
PkParams(d) ==
    IF "_params" \in DOMAIN d
    THEN [raised |-> "none", names |-> d._params]
    ELSE [raised |-> "AttributeError", names |-> <<>>]

\* two objects expose the same params: both return, and return the same names
PkSameParams(a, b) ==
    /\ PkParams(a).raised = "none"
    /\ PkParams(b).raised = "none"
    /\ PkParams(a).names = PkParams(b).names

\* the values the object holds for its parameters
PkValues(kind, d) ==
    IF kind = "spheres" THEN <<d.pos, d.rad, d.zscale>> ELSE <<d.param_dict>>

\* the rendered field: particles, or image
PkField(kind, d) == IF kind = "spheres" THEN d.particles ELSE d.image

\* C30: after __getstate__ and __setstate__ the object exposes the params and
\* values of the original, and its rendered field equals the original's.
C30_RoundTrip ==
    pk.pc = "loaded" =>
        /\ PkSameParams(pk.reloaded, pk.original)
        /\ PkValues(pk.kind, pk.reloaded) = PkValues(pk.kind, pk.original)
        /\ PkField(pk.kind, pk.reloaded) = PkField(pk.kind, pk.original)

\* what does hold: the values of both classes, the names of the slab, and
\* the field of the spheres
C30_RoundTripKept ==
    pk.pc = "loaded" =>
        /\ PkValues(pk.kind, pk.reloaded) = PkValues(pk.kind, pk.original)
        /\ pk.kind = "slab" => PkSameParams(pk.reloaded, pk.original)
        /\ pk.kind = "spheres" =>
              PkField(pk.kind, pk.reloaded) = PkField(pk.kind, pk.original)

\* the slab alone
C30_SlabRoundTrip ==
    pk.kind = "slab" => C30_RoundTrip

-----------------------------------------------------------------------------
(* The specifications                                                       *)

\* the engine while another part of the program is looked at
IdleEngine == NewEngine("flat", TRUE, [i \in PIdx |-> 0], 1)

Next ==
    \/ CallRun1
    \/ Run1Return
    \/ Run1Step
    \/ CallRun2
    \/ Run2Return
    \/ Run2Step
    \/ CallRun3
    \/ Run3Return
    \/ Run3Step
    \/ CallInternalRun
    \/ IrStep
    \/ IrReturn
    \/ Reset

Init == InitLM /\ sc = NoCollection /\ gp = NoGroups /\ gc = NoGC /\ au = NoAU /\ bn = NoBurn /\ px = NoPX /\ ac = NoAccel /\ nn = NoNan /\ sk = NoStuck /\ cc = NoCos /\ pj = NoPxJtj /\ nm = NoNames /\ ju = NoJU /\ rt = NoRun3Loop /\ ev = NoEval /\ dm = NoDamp /\ pf = NoPSF /\ pk = NoPickle

\* the runs of an LMEngine
Spec == Init /\ [][Next]_vars

NextSpheres ==
    \/ UpdateParticle
    \/ UpdateZscale
    \/ AddParticle
    \/ RemoveParticle

InitSpheres == InitSC /\ lm = IdleEngine /\ gp = NoGroups /\ gc = NoGC /\ au = NoAU /\ bn = NoBurn /\ px = NoPX /\ ac = NoAccel /\ nn = NoNan /\ sk = NoStuck /\ cc = NoCos /\ pj = NoPxJtj /\ nm = NoNames /\ ju = NoJU /\ rt = NoRun3Loop /\ ev = NoEval /\ dm = NoDamp /\ pf = NoPSF /\ pk = NoPickle

\* the calls on a PlatonicSpheresCollection
SpecSpheres == InitSpheres /\ [][NextSpheres]_vars

NextGroups == Separate

InitGroups == InitGP /\ lm = IdleEngine /\ sc = NoCollection /\ gc = NoGC /\ au = NoAU /\ bn = NoBurn /\ px = NoPX /\ ac = NoAccel /\ nn = NoNan /\ sk = NoStuck /\ cc = NoCos /\ pj = NoPxJtj /\ nm = NoNames /\ ju = NoJU /\ rt = NoRun3Loop /\ ev = NoEval /\ dm = NoDamp /\ pf = NoPSF /\ pk = NoPickle

\* the calls of separate_particles_into_groups
SpecGroups == InitGroups /\ [][NextGroups]_vars

NextGC == GcResetCall \/ GcDoRun \/ GcDoInternalRun \/ GcGroup

InitGroupCollection ==
    InitGC /\ lm = IdleEngine /\ sc = NoCollection /\ gp = NoGroups /\ au = NoAU /\ bn = NoBurn /\ px = NoPX /\ ac = NoAccel /\ nn = NoNan /\ sk = NoStuck /\ cc = NoCos /\ pj = NoPxJtj /\ nm = NoNames /\ ju = NoJU /\ rt = NoRun3Loop /\ ev = NoEval /\ dm = NoDamp /\ pf = NoPSF /\ pk = NoPickle

\* the calls on an LMParticleGroupCollection
SpecGC == InitGroupCollection /\ [][NextGC]_vars

NextAU == AuUpdate \/ AuUpdateRscl \/ AuReset

InitAugmented ==
    InitAU /\ lm = IdleEngine /\ sc = NoCollection /\ gp = NoGroups /\ gc = NoGC /\ bn = NoBurn /\ px = NoPX /\ ac = NoAccel /\ nn = NoNan /\ sk = NoStuck /\ cc = NoCos /\ pj = NoPxJtj /\ nm = NoNames /\ ju = NoJU /\ rt = NoRun3Loop /\ ev = NoEval /\ dm = NoDamp /\ pf = NoPSF /\ pk = NoPickle

\* the calls on an AugmentedState
SpecAU == InitAugmented /\ [][NextAU]_vars

NextBurn == BurnLoop \/ BurnGlobals \/ BurnParticles \/ BurnLineMin

InitBurn ==
    InitBN /\ lm = IdleEngine /\ sc = NoCollection /\ gp = NoGroups /\ gc = NoGC /\ au = NoAU
    /\ px = NoPX /\ ac = NoAccel /\ nn = NoNan /\ sk = NoStuck /\ cc = NoCos /\ pj = NoPxJtj /\ nm = NoNames /\ ju = NoJU /\ rt = NoRun3Loop /\ ev = NoEval /\ dm = NoDamp /\ pf = NoPSF /\ pk = NoPickle

\* one call of burn
SpecBurn == InitBurn /\ [][NextBurn]_vars

NextParticles == PxUpdateFunction

InitParticles ==
    InitPX /\ lm = IdleEngine /\ sc = NoCollection /\ gp = NoGroups /\ gc = NoGC /\ au = NoAU
    /\ bn = NoBurn /\ ac = NoAccel /\ nn = NoNan /\ sk = NoStuck /\ cc = NoCos /\ pj = NoPxJtj /\ nm = NoNames /\ ju = NoJU /\ rt = NoRun3Loop /\ ev = NoEval /\ dm = NoDamp /\ pf = NoPSF /\ pk = NoPickle

\* LMParticles.update_function on every proposed vector
SpecParticles == InitParticles /\ [][NextParticles]_vars

NextAccel == AcFindLMUpdates

InitAccel ==
    InitAC /\ lm = IdleEngine /\ sc = NoCollection /\ gp = NoGroups /\ gc = NoGC /\ au = NoAU
    /\ bn = NoBurn /\ px = NoPX /\ nn = NoNan /\ sk = NoStuck /\ cc = NoCos /\ pj = NoPxJtj /\ nm = NoNames /\ ju = NoJU /\ rt = NoRun3Loop /\ ev = NoEval /\ dm = NoDamp /\ pf = NoPSF /\ pk = NoPickle

\* the calls of LMEngine.find_LM_updates
SpecAccel == InitAccel /\ [][NextAccel]_vars

NextNan ==
    \/ NnUpdateFunction
    \/ NnUpdateJ
    \/ NnUpdateBroydenJ
    \/ NnUpdateEigJ
    \/ NnUpdateSelectJ

InitNan ==
    InitNN /\ lm = IdleEngine /\ sc = NoCollection /\ gp = NoGroups /\ gc = NoGC /\ au = NoAU
    /\ bn = NoBurn /\ px = NoPX /\ ac = NoAccel /\ sk = NoStuck /\ cc = NoCos /\ pj = NoPxJtj /\ nm = NoNames /\ ju = NoJU /\ rt = NoRun3Loop /\ ev = NoEval /\ dm = NoDamp /\ pf = NoPSF /\ pk = NoPickle

\* the updates and Jacobian refreshes of one engine
SpecNan == InitNan /\ [][NextNan]_vars

NextStuck == StStart \/ StBlock \/ StAfter \/ StRetry

InitStuck ==
    InitSK /\ lm = IdleEngine /\ sc = NoCollection /\ gp = NoGroups /\ gc = NoGC /\ au = NoAU
    /\ bn = NoBurn /\ px = NoPX /\ ac = NoAccel /\ nn = NoNan /\ cc = NoCos /\ pj = NoPxJtj /\ nm = NoNames /\ ju = NoJU /\ rt = NoRun3Loop /\ ev = NoEval /\ dm = NoDamp /\ pf = NoPSF /\ pk = NoPickle

\* one call of do_stuckJ_run
SpecStuck == InitStuck /\ [][NextStuck]_vars

NextCos == CcCheckCompletion

InitCos ==
    InitCC /\ lm = IdleEngine /\ sc = NoCollection /\ gp = NoGroups /\ gc = NoGC /\ au = NoAU
    /\ bn = NoBurn /\ px = NoPX /\ ac = NoAccel /\ nn = NoNan /\ sk = NoStuck /\ pj = NoPxJtj /\ nm = NoNames /\ ju = NoJU /\ rt = NoRun3Loop /\ ev = NoEval /\ dm = NoDamp /\ pf = NoPSF /\ pk = NoPickle

\* the calls of LMEngine.check_completion
SpecCos == InitCos /\ [][NextCos]_vars

NextPx == PjGetNumPx

InitPx ==
    InitPJ /\ lm = IdleEngine /\ sc = NoCollection /\ gp = NoGroups /\ gc = NoGC /\ au = NoAU
    /\ bn = NoBurn /\ px = NoPX /\ ac = NoAccel /\ nn = NoNan /\ sk = NoStuck /\ cc = NoCos /\ nm = NoNames /\ ju = NoJU /\ rt = NoRun3Loop /\ ev = NoEval /\ dm = NoDamp /\ pf = NoPSF /\ pk = NoPickle

\* the calls of get_num_px_jtj
SpecPx == InitPx /\ [][NextPx]_vars

NextNames == NmAddParticle \/ NmRemoveParticle \/ NmP2i

InitNames ==
    InitNM /\ lm = IdleEngine /\ sc = NoCollection /\ gp = NoGroups /\ gc = NoGC /\ au = NoAU
    /\ bn = NoBurn /\ px = NoPX /\ ac = NoAccel /\ nn = NoNan /\ sk = NoStuck /\ cc = NoCos
    /\ pj = NoPxJtj /\ ju = NoJU /\ rt = NoRun3Loop /\ ev = NoEval /\ dm = NoDamp /\ pf = NoPSF /\ pk = NoPickle

\* the calls that rebuild or read the parameter names of a collection
SpecNames == InitNames /\ [][NextNames]_vars

NextJ == JuRun1 \/ JuRun2 \/ JuReset

InitJ ==
    InitJU /\ lm = IdleEngine /\ sc = NoCollection /\ gp = NoGroups /\ gc = NoGC /\ au = NoAU
    /\ bn = NoBurn /\ px = NoPX /\ ac = NoAccel /\ nn = NoNan /\ sk = NoStuck /\ cc = NoCos
    /\ pj = NoPxJtj /\ nm = NoNames /\ rt = NoRun3Loop /\ ev = NoEval /\ dm = NoDamp /\ pf = NoPSF /\ pk = NoPickle

\* the passes of do_run_1 and do_run_2 as far as the updates of J go
SpecJ == InitJ /\ [][NextJ]_vars

NextRun3 ==
    \/ RtCheck
    \/ RtStuckStart \/ RtStuckBlock \/ RtStuckAfter \/ RtStuckRetry
    \/ RtStuckReturn

InitRun3 ==
    InitRT /\ lm = IdleEngine /\ sc = NoCollection /\ gp = NoGroups /\ gc = NoGC /\ au = NoAU
    /\ bn = NoBurn /\ px = NoPX /\ ac = NoAccel /\ nn = NoNan /\ cc = NoCos
    /\ pj = NoPxJtj /\ nm = NoNames /\ ju = NoJU /\ ev = NoEval /\ dm = NoDamp /\ pf = NoPSF /\ pk = NoPickle

\* do_run_3, which goes on to its next statement as long as it has one
SpecRun3 == InitRun3 /\ [][NextRun3]_vars /\ WF_vars(NextRun3)

NextEval == EvRun1 \/ EvRun2 \/ EvInternalRun \/ EvUpdateSelectJ \/ EvUpdateEigJ

InitEval ==
    InitEV /\ lm = IdleEngine /\ sc = NoCollection /\ gp = NoGroups /\ gc = NoGC /\ au = NoAU
    /\ bn = NoBurn /\ px = NoPX /\ ac = NoAccel /\ nn = NoNan /\ sk = NoStuck /\ cc = NoCos
    /\ pj = NoPxJtj /\ nm = NoNames /\ ju = NoJU /\ rt = NoRun3Loop /\ dm = NoDamp /\ pf = NoPSF /\ pk = NoPickle

\* the run steps and J helpers of an engine, as far as the place of the model goes
SpecEval == InitEval /\ [][NextEval]_vars

NextDamp == DmReset \/ DmSetParams

InitDamp ==
    InitDM /\ lm = IdleEngine /\ sc = NoCollection /\ gp = NoGroups /\ gc = NoGC /\ au = NoAU
    /\ bn = NoBurn /\ px = NoPX /\ ac = NoAccel /\ nn = NoNan /\ sk = NoStuck /\ cc = NoCos
    /\ pj = NoPxJtj /\ nm = NoNames /\ ju = NoJU /\ rt = NoRun3Loop /\ ev = NoEval /\ pf = NoPSF /\ pk = NoPickle

\* the calls that set the damping of an engine
SpecDamp == InitDamp /\ [][NextDamp]_vars

NextPsf == PfConstruct

InitPsf ==
    InitPF /\ lm = IdleEngine /\ sc = NoCollection /\ gp = NoGroups /\ gc = NoGC /\ au = NoAU
    /\ bn = NoBurn /\ px = NoPX /\ ac = NoAccel /\ nn = NoNan /\ sk = NoStuck /\ cc = NoCos
    /\ pj = NoPxJtj /\ nm = NoNames /\ ju = NoJU /\ rt = NoRun3Loop /\ ev = NoEval
    /\ dm = NoDamp /\ pk = NoPickle

\* the construction of a PSF2D
SpecPsf == InitPsf /\ [][NextPsf]_vars

NextPickle == PkGetstate \/ PkSetstate

InitPickle ==
    InitPK /\ lm = IdleEngine /\ sc = NoCollection /\ gp = NoGroups /\ gc = NoGC /\ au = NoAU
    /\ bn = NoBurn /\ px = NoPX /\ ac = NoAccel /\ nn = NoNan /\ sk = NoStuck /\ cc = NoCos
    /\ pj = NoPxJtj /\ nm = NoNames /\ ju = NoJU /\ rt = NoRun3Loop /\ ev = NoEval
    /\ dm = NoDamp /\ pf = NoPSF

\* one object pickled and unpickled
SpecPickle == InitPickle /\ [][NextPickle]_vars
====
